---- MODULE Spec2Model ----
(***************************************************************************)
(* Model of the SAGE core (sage/core/base.py, sage/core/persistence.py):   *)
(* the Flow dispatch loop, synchronous (Flow.run) and asynchronous         *)
(* (Flow.run_async), over a graph of Nodes wired with Node.__rshift__;     *)
(* the phases of Node.run; the SharedStore with its subscribers; and the   *)
(* tiered JSONPersistence.                                                 *)
(***************************************************************************)
EXTENDS Integers, Sequences, FiniteSets, TLC

\* ---------------------------------------------------------------- bounds
\* Largest max_steps argument passed to Flow.run / Flow.run_async.
MaxSteps == 2
\* Cap on the total length of Flow.history (a call is only issued when its
\* bound still fits under the cap).
MaxHist == 4
\* Most SharedStore.set calls made in one behaviour (nested ones included).
MaxCalls == 2
\* Most SharedStore.subscribe calls made in one behaviour.
MaxSubs == 2
\* Most JSONPersistence.save calls made in one behaviour.
MaxSaves == 2
\* Most ContentAdaptationNode.post calls made in one behaviour.
MaxPosts == 2
\* Most history entries in one behaviour of the flow of create_sage_flow.
MaxVisits == 10

\* ------------------------------------------------------------ value sets
\* Python's None (no node / no action / key absent from the store).
None == "<None>"
\* The Node objects of the graph; a Node's name identifies it.
Nodes == {"A", "B"}
\* Nodes that are instances of AsyncNode.
AsyncNodes == {"A"}
\* Action labels a Node's post may return.
Actions == {None, "", "x", "y"}
\* Keys a branching table may hold.
TableKeys == {"", "x"}
\* Values a Node's post may set under the store key.
Vals == {"v1"}
\* Values the caller of the Flow stores under the store key.
Inputs == {"v0"}

\* Keys of the SharedStore, values stored under them, subscribed callbacks.
StoreKeys == {"k1", "k2"}
StoreVals == {"a", "b"}
Callbacks == {"c1", "c2"}

\* The values of AgentFork: the tiers, each a directory of base_path.
Tiers == {"alpha", "beta", "gamma", "delta"}
\* Keys passed to the persistence calls, as sequences of characters.
PKeys == {<<"a">>, <<"a", "/", "b">>, <<"a", "_", "b">>}
\* Python's None as a persisted or loaded value.
PyNone == [keys |-> "none", key |-> "", seq |-> "none", leaf |-> ""]
\* Values passed to save: a dict of one entry, its key a str or an int
\* (of text key), its value a str (leaf) or a list or tuple holding it.
PyValues ==
    [keys : {"str", "int"}, key : {"1"}, seq : {"none", "list", "tuple"},
     leaf : {"x"}]
\* Patterns passed to list_keys, split at "/": the directory components and
\* the pattern of the file stem ("*", "a*", "a/*", "../alpha/*").
Patterns ==
    {[dirs |-> <<>>, name |-> <<"*">>],
     [dirs |-> <<>>, name |-> <<"a", "*">>],
     [dirs |-> <<"a">>, name |-> <<"*">>],
     [dirs |-> <<"..", "alpha">>, name |-> <<"*">>]}

VARIABLES
    next_nodes,     \* Node.next_nodes of every node: action -> Node or None
    default_next,   \* Node.default_next of every node: Node or None
    start_node,     \* Flow.start_node
    current_node,   \* Flow.current_node
    history,        \* Flow.history
    shared,         \* Flow.shared: the value stored under the store key
    pc,             \* "idle": no call in progress, "loop": at the while test,
                    \* "await": suspended in exec_async
    mode,           \* "sync": Flow.run, "async": Flow.run_async
    steps,          \* local steps of the call
    max_steps,      \* argument max_steps of the call
    action,         \* local action of the call
    result,         \* how the last call ended: "none", "returned", "raised"
    warned,         \* the last call printed the max-steps warning
    fault,          \* the node whose run raised in the current call, or None
    pending,        \* the outcome of the node invocation suspended in await
    hist0,          \* Len(history) when the current call started
    shared0,        \* the store contents when the current call started
    deterministic,  \* every node's behaviour is a function of the store
    behaviour,      \* what the deterministic nodes have shown so far:
                    \* records of node, store read and outcome
    runs,           \* what the finished calls on deterministic nodes did:
                    \* records of variant, bound, initial store and results
    wired,          \* per node, the forms of >> applied to it so far and the
                    \* last operand of each form
    phase,          \* position of a Node.run call: "idle", "prepped",
                    \* "execed", "returned", "raised"
    calls,          \* the phase calls of the Node.run call: name, arguments
                    \* and returned value (or Raise)
    prep_res,       \* local prep_res of Node.run
    exec_res,       \* local exec_res of Node.run
    run_action,     \* the value Node.run returned
    store,          \* SharedStore._store: key -> value, None when absent
    listeners,      \* SharedStore._listeners: key -> list of callbacks
    stack,          \* the SharedStore.set calls in progress, innermost last:
                    \* call number, key, value, index of the callback being
                    \* or to be invoked, whether that callback is running
    setcalls,       \* every set call made: key, value, how it was issued,
                    \* the callbacks subscribed to the key then, its status
    log,            \* every callback invocation made: set call, callback,
                    \* arguments, value stored under the key then, outcome
    todo,           \* entries of the update in progress still to apply
    sresult,        \* how the last call on the store ended
    op,             \* the last call made on the store by its user
    disk,           \* the files under base_path: (tier, file stem) -> the
                    \* JSON document written there
    nsaves,         \* the number of save calls made (the clock of timestamp)
    last,           \* the last call made on the JSONPersistence, with what
                    \* it returned and whether it raised
    saved,          \* the (key, tier) pairs save was called with so far
    astore,         \* the _store of the SharedStore a ContentAdaptationNode
                    \* posts to: the keys it holds of those post writes,
                    \* and their values
    post_res        \* what the last call of post returned (None before)

graph == <<next_nodes, default_next, start_node>>

\* The variables of a Flow call other than the graph and the store.
flowctl == <<current_node, history, pc, mode, steps, max_steps, action, result,
             warned, fault, pending, hist0, shared0, deterministic, behaviour,
             runs>>

wirevars == <<wired>>
nodevars == <<phase, calls, prep_res, exec_res, run_action>>

storevars == <<store, listeners, stack, setcalls, log, todo, sresult, op>>

persistvars == <<disk, nsaves, last, saved>>

agentvars == <<astore, post_res>>

\* The files and the store of the agents.
outside == <<persistvars, agentvars>>

\* The variables outside the Flow.
others == <<wirevars, nodevars, storevars, outside>>

vars == <<graph, shared, flowctl, others>>

\* ------------------------------------------------------------- helpers
\* Python truthiness of an action label (None and "" are falsy).
Truthy(a) == a # None /\ a # ""

\* All branching tables: dicts with keys among TableKeys and entries that are
\* a Node or None.
Tables == UNION {[K -> Nodes \cup {None}] : K \in SUBSET TableKeys}

\* What one invocation of a Node does: the phase that raises, if any; the
\* value its post sets in the store, if any; the action its post returns.
\* prep and exec come before post, so a fault there leaves the store alone.
Outcomes ==
    {o \in [raises : {"no", "prep", "exec", "post"},
            write : Vals \cup {None}, act : Actions] :
        /\ o.raises # "no" => o.act = None
        /\ o.raises \in {"prep", "exec"} => o.write = None}

\* The step bounds Flow.run and Flow.run_async are called with.
Bounds == 0..MaxSteps

\* pending when no node invocation is suspended.
NoOutcome == [raises |-> "no", write |-> None, act |-> None]

\* Off by one: the loop runs once more when the counter equals the bound.
LoopCond_OffByOne == current_node # None /\ steps <= max_steps

\* The loop stops one step early.
LoopCond_Early == current_node # None /\ steps + 1 < max_steps

\* The `while` condition of Flow.run.
LoopCond == current_node # None /\ steps < max_steps

\* The `while` condition of Flow.run_async.
LoopCondAsync == current_node # None /\ steps < max_steps

\* The default edge is tried before the branching table.
NextNode_DefaultFirst(n, a) ==
    IF default_next[n] # None THEN default_next[n]
    ELSE IF Truthy(a) /\ a \in DOMAIN next_nodes[n] THEN next_nodes[n][a]
    ELSE None

\* An unresolved action leaves the Flow on the current node.
NextNode_StayOnMiss(n, a) ==
    IF Truthy(a) /\ a \in DOMAIN next_nodes[n] THEN next_nodes[n][a]
    ELSE IF default_next[n] # None THEN default_next[n]
    ELSE n

\* A branching entry that is None falls through to the default edge
\* (next_nodes.get(action) or default_next).
NextNode_NoneEntryFallsThrough(n, a) ==
    IF Truthy(a) /\ a \in DOMAIN next_nodes[n] /\ next_nodes[n][a] # None
    THEN next_nodes[n][a]
    ELSE IF default_next[n] # None THEN default_next[n]
    ELSE None

\* The branching table is consulted for every action, empty ones included
\* (action in next_nodes without the truth test).
NextNode_NoTruthTest(n, a) ==
    IF a \in DOMAIN next_nodes[n] THEN next_nodes[n][a]
    ELSE IF default_next[n] # None THEN default_next[n]
    ELSE None

\* The dispatch decision of Flow.run: the node that follows n after n
\* returned action a.
NextNode(n, a) ==
    IF Truthy(a) /\ a \in DOMAIN next_nodes[n] THEN next_nodes[n][a]
    ELSE IF default_next[n] # None THEN default_next[n]
    ELSE None

\* The asynchronous variant tries the default edge first.
NextNodeAsync_DefaultFirst(n, a) ==
    IF default_next[n] # None THEN default_next[n]
    ELSE IF Truthy(a) /\ a \in DOMAIN next_nodes[n] THEN next_nodes[n][a]
    ELSE None

\* The dispatch decision of Flow.run_async.
NextNodeAsync(n, a) ==
    IF Truthy(a) /\ a \in DOMAIN next_nodes[n] THEN next_nodes[n][a]
    ELSE IF default_next[n] # None THEN default_next[n]
    ELSE None

\* The history is restarted at every step instead of extended.
Visited_Reset(n) == <<n>>

\* The history after the name of node n is appended to it.
Visited(n) == Append(history, n)

\* The warning is printed only when the bound cut the run short: a node is
\* still current.
Warns_OnlyWhenCut == steps >= max_steps /\ current_node # None

\* The warning test after the loop of Flow.run.
Warns == steps >= max_steps

\* The store after the invocation with outcome o: post's SharedStore.set.
StoreAfter(o) == IF o.write # None THEN o.write ELSE shared

\* Node n, reading the current store, may show outcome o: a deterministic
\* node shows what it showed before for this store.
Behaves(n, o) ==
    deterministic =>
        \A b \in behaviour : (b.node = n /\ b.store = shared) => b.outcome = o

\* The behaviour on record after node n showed outcome o for the current
\* store.
Shown(n, o) ==
    IF deterministic
    THEN behaviour \cup {[node |-> n, store |-> shared, outcome |-> o]}
    ELSE behaviour

\* The store a call starts from (tracked for deterministic nodes only).
CallStore == IF deterministic THEN shared ELSE shared0

\* The record of a call that ends with history h, current node c and store s,
\* having raised or not.
Finished(h, c, s, r) ==
    IF deterministic
    THEN runs \cup {[mode |-> mode, bound |-> max_steps, store0 |-> shared0,
                     hist |-> SubSeq(h, hist0 + 1, Len(h)), current |-> c,
                     store |-> s, raised |-> r]}
    ELSE runs

\* Wirings whose branching tables use only the key "x".
PlainWiring == \A n \in Nodes : DOMAIN next_nodes[n] \subseteq {"x"}

\* --------------------------------------------------------------- Init
\* No >> has been applied yet.
InitWired ==
    wired = [n \in Nodes |-> [forms |-> {}, table |-> <<>>, default |-> None]]

\* No Node.run call has been made yet.
InitNode ==
    /\ phase = "idle"
    /\ calls = <<>>
    /\ prep_res = None
    /\ exec_res = None
    /\ run_action = None

\* A SharedStore after construction (SharedStore.__init__).
InitStore ==
    /\ store = [k \in StoreKeys |-> None]
    /\ listeners = [k \in StoreKeys |-> <<>>]
    /\ stack = <<>>
    /\ setcalls = <<>>
    /\ log = <<>>
    /\ todo = <<>>
    /\ sresult = "none"
    /\ op = [kind |-> "none", entries |-> <<>>, first |-> 0, store0 |-> store]

\* A JSONPersistence after construction on an empty base_path: the tier
\* directories exist and hold no file.
InitPersist ==
    /\ disk = <<>>
    /\ nsaves = 0
    /\ last = [op |-> "none", key |-> <<>>, tier |-> "alpha",
               value |-> PyNone, found |-> FALSE, keys |-> <<>>,
               raised |-> FALSE]
    /\ saved = {}

\* The store a ContentAdaptationNode is handed in the tests: it holds none of
\* the keys post writes.
NoAdaptations ==
    [sentiment |-> "", emotional_support |-> "", message_tone |-> ""]

InitAgent ==
    /\ astore = [keys |-> {}, current_adaptations |-> NoAdaptations,
                 logs |-> <<>>, content_adapted |-> FALSE,
                 adapted_content |-> ""]
    /\ post_res = None

\* The components outside the Flow, untouched.
InitOthers ==
    InitWired /\ InitNode /\ InitStore /\ InitPersist /\ InitAgent

\* A Flow object on which no call has been made yet.
InitIdle ==
    /\ current_node = start_node
    /\ history = <<>>
    /\ pc = "idle"
    /\ mode = "sync"
    /\ steps = 0
    /\ action = None
    /\ result = "none"
    /\ warned = FALSE
    /\ fault = None
    /\ pending = NoOutcome
    /\ hist0 = 0
    /\ behaviour = {}
    /\ runs = {}
    /\ InitOthers

\* A Flow object after construction and set_start, over any wiring of the
\* nodes with tables of T.
InitFlowOver(T) ==
    /\ next_nodes \in [Nodes -> T]
    /\ default_next \in [Nodes -> Nodes \cup {None}]
    /\ start_node \in Nodes \cup {None}
    /\ InitIdle

InitFlow == InitFlowOver(Tables)

\* Nodes of arbitrary behaviour over an empty store.
Init ==
    /\ InitFlow
    /\ shared = None
    /\ shared0 = None
    /\ max_steps = 0
    /\ deterministic = FALSE

\* ------------------------------------------------------------- actions
\* Flow.run(max_steps = N) up to the first evaluation of the while test, in
\* a behaviour of at most H history entries; s0 is what is kept on record
\* as the store the call started from.
RunWithin(N, H, s0) ==
    /\ pc = "idle"
    /\ start_node # None
    /\ Len(history) + N <= H
    /\ current_node' = start_node
    /\ steps' = 0
    /\ max_steps' = N
    /\ mode' = "sync"
    /\ pc' = "loop"
    /\ action' = None
    /\ result' = "none"
    /\ warned' = FALSE
    /\ fault' = None
    /\ hist0' = Len(history)
    /\ shared0' = s0
    /\ UNCHANGED <<others, graph, history, shared, pending, deterministic, behaviour,
                   runs>>

\* The call goes on from where the previous call stopped (the start node
\* only when that was nowhere).
Run_KeepsPosition(N) ==
    /\ pc = "idle"
    /\ start_node # None
    /\ Len(history) + N <= MaxHist
    /\ current_node' = IF current_node # None THEN current_node ELSE start_node
    /\ steps' = 0
    /\ max_steps' = N
    /\ mode' = "sync"
    /\ pc' = "loop"
    /\ action' = None
    /\ result' = "none"
    /\ warned' = FALSE
    /\ fault' = None
    /\ hist0' = Len(history)
    /\ shared0' = CallStore
    /\ UNCHANGED <<others, graph, history, shared, pending, deterministic, behaviour,
                   runs>>

\* Flow.run(max_steps = N).
Run(N) == RunWithin(N, MaxHist, CallStore)

\* The call on a Flow without start node returns as if the loop had ended.
RunNoStart_Returns ==
    /\ pc = "idle"
    /\ start_node = None
    /\ result' = "returned"
    /\ warned' = FALSE
    /\ UNCHANGED <<others, graph, current_node, history, shared, pc, mode, steps,
                   max_steps, action, fault, pending, hist0, shared0,
                   deterministic, behaviour, runs>>

\* Flow.run / Flow.run_async on a Flow without start node: ValueError.
RunNoStart ==
    /\ pc = "idle"
    /\ start_node = None
    /\ result' = "raised"
    /\ warned' = FALSE
    /\ UNCHANGED <<others, graph, current_node, history, shared, pc, mode, steps,
                   max_steps, action, fault, pending, hist0, shared0,
                   deterministic, behaviour, runs>>

\* The loop catches a node's fault and goes on as if the node had returned
\* no action.
Step_CatchesFault(o) ==
    /\ pc = "loop"
    /\ mode = "sync"
    /\ LoopCond
    /\ Behaves(current_node, o)
    /\ behaviour' = Shown(current_node, o)
    /\ history' = Visited(current_node)
    /\ shared' = StoreAfter(o)
    /\ fault' = IF o.raises # "no" THEN current_node ELSE fault
    /\ action' = o.act
    /\ current_node' = NextNode(current_node, o.act)
    /\ steps' = steps + 1
    /\ UNCHANGED <<others, graph, pc, mode, max_steps, result, warned, pending, hist0,
                   shared0, deterministic, runs>>

\* One iteration of the while loop of Flow.run: append the name, run the
\* node (Node.run: prep, exec, post), dispatch on the returned action, count
\* the step.  A node whose run raises aborts the call after the append.
Step(o) ==
    /\ pc = "loop"
    /\ mode = "sync"
    /\ LoopCond
    /\ Behaves(current_node, o)
    /\ behaviour' = Shown(current_node, o)
    /\ history' = Visited(current_node)
    /\ shared' = StoreAfter(o)
    /\ IF o.raises # "no"
       THEN /\ pc' = "idle"
            /\ result' = "raised"
            /\ fault' = current_node
            /\ runs' = Finished(history', current_node, shared', TRUE)
            /\ UNCHANGED <<current_node, steps, action>>
       ELSE /\ action' = o.act
            /\ current_node' = NextNode(current_node, o.act)
            /\ steps' = steps + 1
            /\ UNCHANGED <<pc, result, fault, runs>>
    /\ UNCHANGED <<others, graph, mode, max_steps, warned, pending, hist0, shared0,
                   deterministic>>

\* Leaving the while loop of Flow.run: the warning test, then return.
Return ==
    /\ pc = "loop"
    /\ mode = "sync"
    /\ ~LoopCond
    /\ warned' = Warns
    /\ result' = "returned"
    /\ pc' = "idle"
    /\ runs' = Finished(history, current_node, shared, FALSE)
    /\ UNCHANGED <<others, graph, current_node, history, shared, mode, steps,
                   max_steps, action, fault, pending, hist0, shared0,
                   deterministic, behaviour>>

\* Flow.run_async(max_steps = N) up to the first evaluation of the while test.
RunAsync(N) ==
    /\ pc = "idle"
    /\ start_node # None
    /\ Len(history) + N <= MaxHist
    /\ current_node' = start_node
    /\ steps' = 0
    /\ max_steps' = N
    /\ mode' = "async"
    /\ pc' = "loop"
    /\ action' = None
    /\ result' = "none"
    /\ warned' = FALSE
    /\ fault' = None
    /\ hist0' = Len(history)
    /\ shared0' = CallStore
    /\ UNCHANGED <<others, graph, history, shared, pending, deterministic, behaviour,
                   runs>>

\* One iteration of the loop of Flow.run_async on a node that is not an
\* AsyncNode: Node.run is called without suspension.
AsyncStep(o) ==
    /\ pc = "loop"
    /\ mode = "async"
    /\ LoopCondAsync
    /\ current_node \notin AsyncNodes
    /\ Behaves(current_node, o)
    /\ behaviour' = Shown(current_node, o)
    /\ history' = Visited(current_node)
    /\ shared' = StoreAfter(o)
    /\ IF o.raises # "no"
       THEN /\ pc' = "idle"
            /\ result' = "raised"
            /\ fault' = current_node
            /\ runs' = Finished(history', current_node, shared', TRUE)
            /\ UNCHANGED <<current_node, steps, action>>
       ELSE /\ action' = o.act
            /\ current_node' = NextNodeAsync(current_node, o.act)
            /\ steps' = steps + 1
            /\ UNCHANGED <<pc, result, fault, runs>>
    /\ UNCHANGED <<others, graph, mode, max_steps, warned, pending, hist0, shared0,
                   deterministic>>

\* The node's run_async is started as a detached task and not awaited: the
\* loop goes on while the invocation is still suspended.
AsyncBegin_Detached(o) ==
    /\ pc = "loop"
    /\ mode = "async"
    /\ LoopCondAsync
    /\ current_node \in AsyncNodes
    /\ Behaves(current_node, o)
    /\ behaviour' = Shown(current_node, o)
    /\ history' = Visited(current_node)
    /\ pending' = o
    /\ UNCHANGED <<others, graph, current_node, shared, pc, mode, steps, max_steps,
                   action, result, warned, fault, runs, hist0, shared0,
                   deterministic>>

\* First half of an iteration of Flow.run_async on an AsyncNode: append the
\* name, AsyncNode.run_async runs prep and suspends in `await exec_async`.
AsyncBegin(o) ==
    /\ pc = "loop"
    /\ mode = "async"
    /\ LoopCondAsync
    /\ current_node \in AsyncNodes
    /\ Behaves(current_node, o)
    /\ behaviour' = Shown(current_node, o)
    /\ history' = Visited(current_node)
    /\ IF o.raises = "prep"
       THEN /\ pc' = "idle"
            /\ result' = "raised"
            /\ fault' = current_node
            /\ runs' = Finished(history', current_node, shared, TRUE)
            /\ UNCHANGED pending
       ELSE /\ pc' = "await"
            /\ pending' = o
            /\ UNCHANGED <<result, fault, runs>>
    /\ UNCHANGED <<others, graph, current_node, shared, mode, steps, max_steps, action,
                   warned, hist0, shared0, deterministic>>

\* Second half: the awaited exec_async resolves, post runs, then the dispatch
\* and the step count of Flow.run_async.
AsyncResume ==
    /\ pc = "await"
    /\ shared' = StoreAfter(pending)
    /\ pending' = NoOutcome
    /\ IF pending.raises # "no"
       THEN /\ pc' = "idle"
            /\ result' = "raised"
            /\ fault' = current_node
            /\ runs' = Finished(history, current_node, shared', TRUE)
            /\ UNCHANGED <<current_node, steps, action>>
       ELSE /\ pc' = "loop"
            /\ action' = pending.act
            /\ current_node' = NextNodeAsync(current_node, pending.act)
            /\ steps' = steps + 1
            /\ UNCHANGED <<result, fault, runs>>
    /\ UNCHANGED <<others, graph, history, mode, max_steps, warned, hist0, shared0,
                   deterministic, behaviour>>

\* Leaving the while loop of Flow.run_async: return (there is no warning
\* test in this variant).
ReturnAsync ==
    /\ pc = "loop"
    /\ mode = "async"
    /\ ~LoopCondAsync
    /\ result' = "returned"
    /\ pc' = "idle"
    /\ runs' = Finished(history, current_node, shared, FALSE)
    /\ UNCHANGED <<others, graph, current_node, history, shared, mode, steps,
                   max_steps, action, warned, fault, pending, hist0, shared0,
                   deterministic, behaviour>>

\* The caller stores a value between two calls (the command surface sets
\* student_input before every run).
CallerSet(v) ==
    /\ pc = "idle"
    /\ shared' = v
    /\ UNCHANGED <<others, graph, current_node, history, pc, mode, steps, max_steps,
                   action, result, warned, fault, pending, hist0, shared0,
                   deterministic, behaviour, runs>>

\* ------------------------------------------------------ specifications
\* The synchronous Flow with nodes of arbitrary behaviour.
Next ==
    \/ \E N \in Bounds : Run(N)
    \/ RunNoStart
    \/ \E o \in Outcomes : Step(o)
    \/ Return

Spec == Init /\ [][Next]_vars

\* Flows whose branching tables carry entries under the empty labels, None
\* and "".
EmptyTables == UNION {[K -> Nodes \cup {None}] : K \in SUBSET {None, ""}}

InitEmpty ==
    /\ InitFlowOver(EmptyTables)
    /\ shared = None
    /\ shared0 = None
    /\ max_steps = 0
    /\ deterministic = FALSE

SpecEmpty == InitEmpty /\ [][Next]_vars

\* The same with the scheduling of a running call: the interpreter keeps
\* executing the loop, and every node's run returns or raises.
InitFair == Init /\ PlainWiring

FairSpec ==
    /\ InitFair /\ [][Next]_vars
    /\ WF_vars(\E o \in Outcomes : Step(o)) /\ WF_vars(Return)

\* Both variants called on one Flow whose nodes behave deterministically:
\* each node's outcome is a function of the store it reads.  The wiring uses
\* the key "x", the nodes return None or "x" and may fault in exec, the
\* caller has put a value in the store, and every call passes the same bound.
DetOutcomes ==
    {o \in Outcomes : o.raises \in {"no", "exec"} /\ o.act \in {None, "x"}}

InitDet ==
    /\ InitFlow
    /\ start_node # None
    /\ PlainWiring
    /\ shared \in Inputs
    /\ shared0 = shared
    /\ max_steps \in Bounds
    /\ deterministic = TRUE

NextDet ==
    \/ Run(max_steps)
    \/ \E o \in DetOutcomes : Step(o)
    \/ Return
    \/ RunAsync(max_steps)
    \/ \E o \in DetOutcomes : AsyncStep(o)
    \/ \E o \in DetOutcomes : AsyncBegin(o)
    \/ AsyncResume
    \/ ReturnAsync
    \/ \E v \in Inputs : CallerSet(v)

SpecDet == InitDet /\ [][NextDet]_vars

\* ------------------------------------------------- wiring (Node.__rshift__)
\* Installing one form of edge discards the other form.
Rshift_ResetsOther(n) ==
    /\ \/ \E d \in Tables :
            /\ next_nodes' = [next_nodes EXCEPT ![n] = d]
            /\ default_next' = [default_next EXCEPT ![n] = None]
            /\ wired' = [wired EXCEPT ![n].forms = @ \cup {"table"},
                                      ![n].table = d]
       \/ \E m \in Nodes :
            /\ default_next' = [default_next EXCEPT ![n] = m]
            /\ next_nodes' = [next_nodes EXCEPT ![n] = <<>>]
            /\ wired' = [wired EXCEPT ![n].forms = @ \cup {"default"},
                                      ![n].default = m]
    /\ UNCHANGED <<start_node, shared, flowctl, nodevars, storevars,
                   outside>>

\* n >> other: a dict operand becomes n's branching table, any other operand
\* becomes n's default edge.
Rshift(n) ==
    /\ \/ \E d \in Tables :
            /\ next_nodes' = [next_nodes EXCEPT ![n] = d]
            /\ wired' = [wired EXCEPT ![n].forms = @ \cup {"table"},
                                      ![n].table = d]
            /\ UNCHANGED default_next
       \/ \E m \in Nodes :
            /\ default_next' = [default_next EXCEPT ![n] = m]
            /\ wired' = [wired EXCEPT ![n].forms = @ \cup {"default"},
                                      ![n].default = m]
            /\ UNCHANGED next_nodes
    /\ UNCHANGED <<start_node, shared, flowctl, nodevars, storevars,
                   outside>>

\* Nodes after construction (Node.__init__: empty branching table, no
\* default edge), wired with >>.
InitWire ==
    /\ Init
    /\ next_nodes = [n \in Nodes |-> <<>>]
    /\ default_next = [n \in Nodes |-> None]
    /\ start_node = None

NextWire == \E n \in Nodes : Rshift(n)

SpecWire == InitWire /\ [][NextWire]_vars

\* ------------------------------------------------------ phases (Node.run)
\* A phase that raises instead of returning.
Raise == "<raise>"
\* Values prep and exec may return.
PrepResults == {None, "p1", "p2"}
ExecResults == {None, "e1", "e2"}

\* The record of one phase call.
Call(fn, args, ret) == [fn |-> fn, args |-> args, ret |-> ret]

\* Node.run(shared), first statement: prep_res = self.prep(shared).
NodePrep(r) ==
    /\ phase \in {"idle", "returned", "raised"}
    /\ calls' = <<Call("prep", <<shared>>, r)>>
    /\ exec_res' = None
    /\ run_action' = None
    /\ IF r = Raise
       THEN phase' = "raised" /\ prep_res' = None
       ELSE phase' = "prepped" /\ prep_res' = r
    /\ UNCHANGED <<graph, shared, flowctl, wirevars, storevars, outside>>

\* exec is handed the store instead of prep's result.
NodeExec_GetsShared(r) ==
    /\ phase = "prepped"
    /\ calls' = Append(calls, Call("exec", <<shared>>, r))
    /\ IF r = Raise
       THEN phase' = "raised" /\ UNCHANGED exec_res
       ELSE phase' = "execed" /\ exec_res' = r
    /\ UNCHANGED <<graph, shared, flowctl, wirevars, storevars, outside,
                   prep_res, run_action>>

\* Second statement: exec_res = self.exec(prep_res).
NodeExec(r) ==
    /\ phase = "prepped"
    /\ calls' = Append(calls, Call("exec", <<prep_res>>, r))
    /\ IF r = Raise
       THEN phase' = "raised" /\ UNCHANGED exec_res
       ELSE phase' = "execed" /\ exec_res' = r
    /\ UNCHANGED <<graph, shared, flowctl, wirevars, storevars, outside,
                   prep_res, run_action>>

\* Third and fourth statements: action = self.post(shared, prep_res,
\* exec_res); return action.  post may set a value in the store before it
\* returns or raises.
NodePost(w, r) ==
    /\ phase = "execed"
    /\ calls' = Append(calls, Call("post", <<shared, prep_res, exec_res>>, r))
    /\ shared' = IF w # None THEN w ELSE shared
    /\ IF r = Raise
       THEN phase' = "raised" /\ UNCHANGED run_action
       ELSE phase' = "returned" /\ run_action' = r
    /\ UNCHANGED <<graph, flowctl, wirevars, storevars, outside, prep_res,
                   exec_res>>

\* One node after construction, run directly by a caller on a store the
\* caller has filled or not.
InitRun ==
    /\ InitFlow
    /\ next_nodes = [n \in Nodes |-> <<>>]
    /\ default_next = [n \in Nodes |-> None]
    /\ start_node = None
    /\ shared \in Inputs \cup {None}
    /\ shared0 = None
    /\ max_steps = 0
    /\ deterministic = FALSE

NextRun ==
    \/ \E r \in PrepResults \cup {Raise} : NodePrep(r)
    \/ \E r \in ExecResults \cup {Raise} : NodeExec(r)
    \/ \E w \in Vals \cup {None}, r \in Actions \cup {Raise} : NodePost(w, r)

SpecRun == InitRun /\ [][NextRun]_vars

\* --------------------------------------------------------- SharedStore
\* The variables outside the SharedStore.
notStore == <<graph, shared, flowctl, wirevars, nodevars, outside>>

\* The innermost set call in progress, and the calls around it.
Top == stack[Len(stack)]
Pop == SubSeq(stack, 1, Len(stack) - 1)

\* The number of subscriptions made on the keys of K.
RECURSIVE Subscribed(_)
Subscribed(K) ==
    IF K = {} THEN 0
    ELSE LET k == CHOOSE x \in K : TRUE
         IN Len(listeners[k]) + Subscribed(K \ {k})

\* The dicts SharedStore.update is called with, as their items() in order.
UpdateMaps ==
    {<<>>} \cup {<<e>> : e \in StoreKeys \X StoreVals}
    \cup {m \in (StoreKeys \X StoreVals) \X (StoreKeys \X StoreVals) :
             m[1][1] # m[2][1]}

\* The record of a set call and the frame of its notification loop.
NewCall(k, v, via) ==
    [key |-> k, value |-> v, via |-> via, subs |-> listeners[k],
     status |-> "active"]
NewFrame(id, k, v) ==
    [call |-> id, key |-> k, value |-> v, i |-> 1, incb |-> FALSE, at |-> 0]

\* The listeners of a key are notified last subscribed first.
Callback_Reversed(f) ==
    listeners[f.key][Len(listeners[f.key]) - f.i + 1]

\* The callback the loop of _notify_listeners invokes in frame f.
Callback(f) == listeners[f.key][f.i]

\* set(k, v) notifies before it stores: the listeners run on the old value.
Begin_NotifiesFirst(k, v, via) ==
    /\ store' = store
    /\ setcalls' = Append(setcalls, NewCall(k, v, via))
    /\ stack' = Append(stack, NewFrame(Len(setcalls) + 1, k, v))
    /\ UNCHANGED <<listeners, log>>

\* set(k, v) up to the call of _notify_listeners: the value is stored.
Begin(k, v, via) ==
    /\ store' = [store EXCEPT ![k] = v]
    /\ setcalls' = Append(setcalls, NewCall(k, v, via))
    /\ stack' = Append(stack, NewFrame(Len(setcalls) + 1, k, v))
    /\ UNCHANGED <<listeners, log>>

\* subscribe(k, c): c is appended to the list of k.
Subscribe(k, c) ==
    /\ stack = <<>>
    /\ Subscribed(StoreKeys) < MaxSubs
    /\ listeners' = [listeners EXCEPT ![k] = Append(@, c)]
    /\ UNCHANGED <<store, stack, setcalls, log, todo, sresult, op, notStore>>

\* The user of the store calls set(k, v).
Set(k, v) ==
    /\ stack = <<>>
    /\ Len(setcalls) < MaxCalls
    /\ Begin(k, v, "set")
    /\ todo' = <<>>
    /\ sresult' = "none"
    /\ op' = [kind |-> "set", entries |-> <<<<k, v>>>>,
              first |-> Len(setcalls), store0 |-> store]
    /\ UNCHANGED notStore

\* store[k] = v writes the value without notifying.
SetItem_Silent(k, v) ==
    /\ stack = <<>>
    /\ Len(setcalls) < MaxCalls
    /\ store' = [store EXCEPT ![k] = v]
    /\ setcalls' = Append(setcalls,
                          [NewCall(k, v, "setitem") EXCEPT !.status = "returned"])
    /\ todo' = <<>>
    /\ sresult' = "returned"
    /\ op' = [kind |-> "setitem", entries |-> <<<<k, v>>>>,
              first |-> Len(setcalls), store0 |-> store]
    /\ UNCHANGED <<listeners, log, stack, notStore>>

\* The user of the store assigns store[k] = v (__setitem__ calls set).
SetItem(k, v) ==
    /\ stack = <<>>
    /\ Len(setcalls) < MaxCalls
    /\ Begin(k, v, "setitem")
    /\ todo' = <<>>
    /\ sresult' = "none"
    /\ op' = [kind |-> "setitem", entries |-> <<<<k, v>>>>,
              first |-> Len(setcalls), store0 |-> store]
    /\ UNCHANGED notStore

\* The user of the store calls update(m): set on the first entry (the loop
\* goes on in SetDone); an empty m returns at once.
Update(m) ==
    /\ stack = <<>>
    /\ Len(setcalls) + Len(m) <= MaxCalls
    /\ op' = [kind |-> "update", entries |-> m,
              first |-> Len(setcalls), store0 |-> store]
    /\ IF m = <<>>
       THEN /\ sresult' = "returned"
            /\ todo' = <<>>
            /\ UNCHANGED <<store, listeners, stack, setcalls, log>>
       ELSE /\ Begin(m[1][1], m[1][2], "update")
            /\ todo' = Tail(m)
            /\ sresult' = "none"
    /\ UNCHANGED notStore

\* One iteration of the loop of _notify_listeners: the next callback is
\* called with the key and the value of the set call.
Invoke ==
    /\ stack # <<>>
    /\ ~Top.incb
    /\ Top.i <= Len(listeners[Top.key])
    /\ log' = Append(log, [call |-> Top.call, cb |-> Callback(Top),
                           key |-> Top.key, value |-> Top.value,
                           seen |-> store[Top.key], outcome |-> "running"])
    /\ stack' = [stack EXCEPT ![Len(stack)].incb = TRUE,
                              ![Len(stack)].at = Len(log) + 1]
    /\ UNCHANGED <<store, listeners, setcalls, todo, sresult, op, notStore>>

\* The running callback calls set(k, v) on the store.
CallbackSet(k, v) ==
    /\ stack # <<>>
    /\ Top.incb
    /\ Len(setcalls) + Len(todo) < MaxCalls
    /\ Begin(k, v, "callback")
    /\ UNCHANGED <<todo, sresult, op, notStore>>

\* The running callback returns: the loop moves to the next callback.
CallbackReturn ==
    /\ stack # <<>>
    /\ Top.incb
    /\ log' = [log EXCEPT ![Top.at].outcome = "returned"]
    /\ stack' = [stack EXCEPT ![Len(stack)].incb = FALSE,
                              ![Len(stack)].i = @ + 1]
    /\ UNCHANGED <<store, listeners, setcalls, todo, sresult, op, notStore>>

\* The loop of _notify_listeners catches the fault of a callback and goes on
\* with the next one.
CallbackRaise_Swallowed ==
    /\ stack # <<>>
    /\ Top.incb
    /\ log' = [log EXCEPT ![Top.at].outcome = "raised"]
    /\ stack' = [stack EXCEPT ![Len(stack)].incb = FALSE,
                              ![Len(stack)].i = @ + 1]
    /\ UNCHANGED <<store, listeners, setcalls, todo, sresult, op, notStore>>

\* update undoes its writes when the notification of an entry raises.
CallbackRaise_RollsBack ==
    /\ stack # <<>>
    /\ Top.incb
    /\ log' = [log EXCEPT ![Top.at].outcome = "raised"]
    /\ setcalls' = [setcalls EXCEPT ![Top.call].status = "raised"]
    /\ stack' = Pop
    /\ sresult' = IF Len(stack) = 1 THEN "raised" ELSE sresult
    /\ store' = IF Len(stack) = 1 /\ op.kind = "update" THEN op.store0
                ELSE store
    /\ UNCHANGED <<listeners, todo, op, notStore>>

\* The running callback raises: the fault leaves the loop, _notify_listeners
\* and set, and reaches the caller of set (the user of the store, or the
\* callback that called set, which is then running again).
CallbackRaise ==
    /\ stack # <<>>
    /\ Top.incb
    /\ log' = [log EXCEPT ![Top.at].outcome = "raised"]
    /\ setcalls' = [setcalls EXCEPT ![Top.call].status = "raised"]
    /\ stack' = Pop
    /\ sresult' = IF Len(stack) = 1 THEN "raised" ELSE sresult
    /\ UNCHANGED <<store, listeners, todo, op, notStore>>

\* The loop of _notify_listeners is over: set returns; an update in progress
\* goes on with set on its next entry.
SetDone ==
    /\ stack # <<>>
    /\ ~Top.incb
    /\ Top.i > Len(listeners[Top.key])
    /\ LET sc == [setcalls EXCEPT ![Top.call].status = "returned"]
       IN IF Len(stack) = 1 /\ todo # <<>>
          THEN LET e == Head(todo)
               IN /\ store' = [store EXCEPT ![e[1]] = e[2]]
                  /\ setcalls' = Append(sc, NewCall(e[1], e[2], "update"))
                  /\ stack' = <<NewFrame(Len(setcalls) + 1, e[1], e[2])>>
                  /\ todo' = Tail(todo)
                  /\ UNCHANGED sresult
          ELSE /\ setcalls' = sc
               /\ stack' = Pop
               /\ sresult' = IF Len(stack) = 1 THEN "returned" ELSE sresult
               /\ UNCHANGED <<store, todo>>
    /\ UNCHANGED <<listeners, log, op, notStore>>

\* A SharedStore used directly: subscriptions, then sets, updates and
\* assignments, with callbacks that return, raise or set values themselves.
InitShared == InitRun /\ shared = None

NextShared ==
    \/ \E k \in StoreKeys, c \in Callbacks : Subscribe(k, c)
    \/ \E k \in StoreKeys, v \in StoreVals : Set(k, v)
    \/ \E k \in StoreKeys, v \in StoreVals : SetItem(k, v)
    \/ \E m \in UpdateMaps : Update(m)
    \/ Invoke
    \/ \E k \in StoreKeys, v \in StoreVals : CallbackSet(k, v)
    \/ CallbackReturn
    \/ CallbackRaise
    \/ SetDone

SpecShared == InitShared /\ [][NextShared]_vars

\* ----------------------------------------------------- JSONPersistence
\* The variables outside the JSONPersistence.
notPersist ==
    <<graph, shared, flowctl, wirevars, nodevars, storevars, agentvars>>

\* str.replace on a key: every character in olds becomes new.
Replace(k, olds, new) ==
    [i \in 1..Len(k) |-> IF k[i] \in olds THEN new ELSE k[i]]

\* Every tier keeps its files in one and the same directory.
GetPath_OneDirectory(k, t) == <<"alpha", Replace(k, {"/", "\\"}, "_")>>

\* The sanitised key is the key itself: the mapping is injective.
GetPath_Injective(k, t) == <<t, k>>

\* Only "/" is replaced: a backslash stays in the file name.
GetPath_SlashOnly(k, t) == <<t, Replace(k, {"/"}, "_")>>

\* _get_path: the file of key k in tier t (its directory and its stem).
GetPath(k, t) == <<t, Replace(k, {"/", "\\"}, "_")>>

\* json.dump of a value: the JSON text has string keys only and arrays for
\* lists and tuples alike.
Dump(v) ==
    [key |-> v.key,
     seq |-> IF v.seq \in {"list", "tuple"} THEN "array" ELSE v.seq,
     leaf |-> v.leaf, null |-> v.keys = "none"]

\* json.load of a JSON text: objects become dicts of str keys, arrays lists.
Parse(j) ==
    IF j.null THEN PyNone
    ELSE [keys |-> "str", key |-> j.key,
          seq |-> IF j.seq = "array" THEN "list" ELSE j.seq, leaf |-> j.leaf]

\* The document save writes for key k, value v and tier t at time ts.
Wrapped(k, v, t, ts) ==
    [key |-> k, fork |-> t, timestamp |-> ts, data |-> Dump(v)]

\* A file that exists is left as it is: the first writer wins.
Written_KeepsOld(d, p, doc) ==
    IF p \in DOMAIN d THEN d
    ELSE [q \in DOMAIN d \cup {p} |-> IF q = p THEN doc ELSE d[q]]

\* The disk d after a file is written (created or truncated) at path p.
Written(d, p, doc) ==
    [q \in DOMAIN d \cup {p} |-> IF q = p THEN doc ELSE d[q]]

\* load reads a field the document does not have.
LoadIn_WrongField(d, k, t) == PyNone

\* The file contents doc make open, json.load or wrapped.get raise: the file
\* is unreadable, is not JSON text, or is JSON text other than an object.
Unloadable(doc) == "text" \in DOMAIN doc

\* load(k, t) on disk d: None when the file is missing, when reading it
\* raises (the except clause) and when the object has no "data" member.
LoadIn(d, k, t) ==
    IF GetPath(k, t) \notin DOMAIN d THEN PyNone
    ELSE IF Unloadable(d[GetPath(k, t)]) THEN PyNone
    ELSE IF "data" \notin DOMAIN d[GetPath(k, t)] THEN PyNone
    ELSE Parse(d[GetPath(k, t)].data)

\* exists(k, t) on disk d.
ExistsIn(d, k, t) == GetPath(k, t) \in DOMAIN d

\* fnmatch of the stem s against the pattern p ("*" matches any run of
\* characters).
RECURSIVE Match(_, _)
Match(p, s) ==
    IF p = <<>> THEN s = <<>>
    ELSE IF Head(p) = "*"
         THEN Match(Tail(p), s) \/ (s # <<>> /\ Match(p, Tail(s)))
         ELSE s # <<>> /\ Head(p) = Head(s) /\ Match(Tail(p), Tail(s))

\* The directories glob reaches from the directory of tier t through the
\* directory components ds: ".." leads from a tier directory to base_path,
\* the name of a tier from base_path to that tier's directory; a tier
\* directory has no subdirectory.  "" stands for base_path.
RECURSIVE Reached(_, _)
Reached(dir, ds) ==
    IF ds = <<>> THEN {dir}
    ELSE IF dir \in Tiers /\ Head(ds) = ".." THEN Reached("", Tail(ds))
    ELSE IF dir = "" /\ Head(ds) \in Tiers THEN Reached(Head(ds), Tail(ds))
    ELSE {}

\* The order of str comparison on characters and on keys.
Ord(c) ==
    CASE c = "*" -> 42 [] c = "/" -> 47
      [] c = "0" -> 48 [] c = "1" -> 49 [] c = "2" -> 50 [] c = "5" -> 53
      [] c = "6" -> 54 [] c = "7" -> 55 [] c = "8" -> 56
      [] c = "\\" -> 92 [] c = "_" -> 95
      [] c = "a" -> 97 [] c = "b" -> 98 [] c = "e" -> 101 [] c = "f" -> 102
      [] c = "i" -> 105 [] c = "k" -> 107 [] c = "l" -> 108
      [] c = "m" -> 109 [] c = "n" -> 110 [] c = "o" -> 111
      [] c = "p" -> 112 [] c = "r" -> 114 [] c = "s" -> 115
      [] c = "t" -> 116 [] c = "u" -> 117
RECURSIVE Less(_, _)
Less(x, y) ==
    IF x = <<>> THEN y # <<>>
    ELSE IF y = <<>> THEN FALSE
    ELSE IF Head(x) = Head(y) THEN Less(Tail(x), Tail(y))
    ELSE Ord(Head(x)) < Ord(Head(y))

\* sorted(keys) for a set of distinct keys.
Sorted(S) ==
    CHOOSE q \in [1..Cardinality(S) -> S] :
        \A i, j \in 1..Cardinality(S) : i < j => Less(q[i], q[j])

\* list_keys(p, t) on disk d: the stems of the files glob finds, with every
\* "_" turned into "/", sorted.
ListKeysIn(d, p, t) ==
    LET stems == {f[2] : f \in {g \in DOMAIN d :
                      g[1] \in Reached(t, p.dirs) /\ Match(p.name, g[2])}}
    IN Sorted({Replace(n, {"_"}, "/") : n \in stems})

\* save(k, v, t): the wrapped document is written to the file of k in t.
Save(k, v, t) ==
    /\ nsaves < MaxSaves
    /\ nsaves' = nsaves + 1
    /\ disk' = Written(disk, GetPath(k, t), Wrapped(k, v, t, nsaves + 1))
    /\ last' = [op |-> "save", key |-> k, tier |-> t, value |-> v,
                found |-> FALSE, keys |-> <<>>, raised |-> FALSE]
    /\ saved' = saved \cup {<<k, t>>}
    /\ UNCHANGED notPersist

\* load has no except clause: what reading the file raises reaches the
\* caller.
Load_NoCatch(k, t) ==
    /\ last' = [op |-> "load", key |-> k, tier |-> t,
                value |-> LoadIn(disk, k, t), found |-> FALSE, keys |-> <<>>,
                raised |-> (/\ GetPath(k, t) \in DOMAIN disk
                            /\ Unloadable(disk[GetPath(k, t)]))]
    /\ UNCHANGED <<disk, nsaves, saved, notPersist>>

\* load(k, t).
Load(k, t) ==
    /\ last' = [op |-> "load", key |-> k, tier |-> t,
                value |-> LoadIn(disk, k, t), found |-> FALSE, keys |-> <<>>,
                raised |-> FALSE]
    /\ UNCHANGED <<disk, nsaves, saved, notPersist>>

\* exists(k, t).
Exists(k, t) ==
    /\ last' = [op |-> "exists", key |-> k, tier |-> t, value |-> PyNone,
                found |-> ExistsIn(disk, k, t), keys |-> <<>>,
                raised |-> FALSE]
    /\ UNCHANGED <<disk, nsaves, saved, notPersist>>

\* list_keys(p, t).
ListKeys(p, t) ==
    /\ last' = [op |-> "list_keys", key |-> p.name, tier |-> t,
                value |-> PyNone, found |-> FALSE,
                keys |-> ListKeysIn(disk, p, t), raised |-> FALSE]
    /\ UNCHANGED <<disk, nsaves, saved, notPersist>>

\* A JSONPersistence used directly.
InitJSON == InitShared

NextJSON ==
    \/ \E k \in PKeys, v \in PyValues, t \in Tiers : Save(k, v, t)
    \/ \E k \in PKeys, t \in Tiers : Load(k, t)
    \/ \E k \in PKeys, t \in Tiers : Exists(k, t)
    \/ \E p \in Patterns, t \in Tiers : ListKeys(p, t)

SpecJSON == InitJSON /\ [][NextJSON]_vars

\* The listing scenario of the tests: keys under two path-like prefixes
\* ("a/" for profiles/, "b/" for sessions/), saved with values JSON gives
\* back unchanged, and listed.
ScenKeys == {<<"a", "/", "a">>, <<"a", "/", "b">>, <<"b", "/", "a">>}
NativeValues == {v \in PyValues : v.keys = "str" /\ v.seq # "tuple"}

InitScen == InitJSON

NextScen ==
    \/ \E k \in ScenKeys, v \in NativeValues, t \in Tiers : Save(k, v, t)
    \/ \E p \in Patterns, t \in Tiers : ListKeys(p, t)

SpecScen == InitScen /\ [][NextScen]_vars

\* What a file may hold other than a record save wrote whole: text that is
\* not JSON, text that cannot be read, JSON text that is not an object, and
\* an object without the "data" member.
BadDocs ==
    {[text |-> "truncated"], [text |-> "unreadable"], [text |-> "array"],
     [key |-> <<"a">>]}

\* save(k, v, t) with a value json.dump rejects (a set, say): the file is
\* opened for writing, the text is written up to the value, and the
\* TypeError of json.dump reaches the caller.
SaveUnserializable(k, t) ==
    /\ nsaves < MaxSaves
    /\ nsaves' = nsaves + 1
    /\ disk' = Written(disk, GetPath(k, t), [text |-> "truncated"])
    /\ last' = [op |-> "save", key |-> k, tier |-> t, value |-> PyNone,
                found |-> FALSE, keys |-> <<>>, raised |-> TRUE]
    /\ saved' = saved \cup {<<k, t>>}
    /\ UNCHANGED notPersist

\* Something other than the JSONPersistence rewrites or locks an existing
\* file.
Damage(k, t, doc) ==
    /\ GetPath(k, t) \in DOMAIN disk
    /\ disk' = Written(disk, GetPath(k, t), doc)
    /\ UNCHANGED <<nsaves, last, saved, notPersist>>

\* A JSONPersistence whose files get damaged.
FaultKeys == {<<"a">>, <<"a", "_", "b">>}

FaultTiers == {"alpha", "beta"}

InitFaulty == InitJSON

NextFaulty ==
    \/ \E k \in FaultKeys, v \in NativeValues, t \in FaultTiers : Save(k, v, t)
    \/ \E k \in FaultKeys, t \in FaultTiers : SaveUnserializable(k, t)
    \/ \E k \in FaultKeys, t \in FaultTiers, doc \in BadDocs : Damage(k, t, doc)
    \/ \E k \in FaultKeys, t \in FaultTiers : Load(k, t)
    \/ \E k \in FaultKeys, t \in FaultTiers : Exists(k, t)

SpecFaulty == InitFaulty /\ [][NextFaulty]_vars

\* A JSONPersistence given keys that differ in their separators only, a key
\* with an underscore in the place of the separator, and plain keys.
CollKeys ==
    {<<"a", "/", "b">>, <<"a", "\\", "b">>, <<"a", "_", "b">>, <<"a", "b">>,
     <<"a">>}

InitColl == InitJSON

NextColl ==
    \/ \E k \in CollKeys, v \in NativeValues, t \in FaultTiers : Save(k, v, t)
    \/ \E k \in CollKeys, t \in FaultTiers : Load(k, t)
    \/ \E k \in CollKeys, t \in FaultTiers : Exists(k, t)

SpecColl == InitColl /\ [][NextColl]_vars

\* ------------------------------------------------- ProfilePersistence
\* The key prefixes of the facade, as characters.
ProfilesPrefix == <<"p", "r", "o", "f", "i", "l", "e", "s", "/">>
SessionsPrefix == <<"s", "e", "s", "s", "i", "o", "n", "s", "/">>
TasksPrefix == <<"t", "a", "s", "k", "s", "/">>
SummariesPrefix == <<"s", "u", "m", "m", "a", "r", "i", "e", "s", "/">>

\* Student, session and task identifiers; the profile, session and result
\* dicts (Dict[str, Any]); summaries; the readings of datetime.now().
StudentIds == {<<"a">>, <<"b">>}
SessionIds == {<<"1">>}
TaskIds == {<<"1">>}
Dicts == {v \in PyValues : v.keys = "str"}
Summaries == {"good"}
Clock ==
    [date : {<<"2", "0", "2", "6", "1", "1", "0", "2">>},
     time : {<<"1", "7", "0", "5", "0", "7">>,
             <<"1", "7", "0", "5", "0", "8">>}]

\* now.strftime('%Y%m%d_%H%M%S').
Strftime(now) == now.date \o <<"_">> \o now.time

\* {"summary": summary}.
SummaryDoc(summary) ==
    [keys |-> "str", key |-> "summary", seq |-> "none", leaf |-> summary]

\* The keys the facade builds.
ProfileKey(student_id) == ProfilesPrefix \o student_id
SessionKey(student_id, session_id) ==
    SessionsPrefix \o student_id \o <<"/">> \o session_id
TaskKey(student_id, task_id) ==
    TasksPrefix \o student_id \o <<"/">> \o task_id
SummaryKey(student_id, now) ==
    SummariesPrefix \o student_id \o <<"/">> \o Strftime(now)

\* save_profile(student_id, profile).
SaveProfile(student_id, profile) ==
    Save(ProfileKey(student_id), profile, "alpha")

\* load_profile(student_id).
LoadProfile(student_id) == Load(ProfileKey(student_id), "alpha")

\* save_session writes to the most durable tier as well.
SaveSession_Alpha(student_id, session_id, data) ==
    Save(SessionKey(student_id, session_id), data, "alpha")

\* save_session(student_id, session_id, data).
SaveSession(student_id, session_id, data) ==
    Save(SessionKey(student_id, session_id), data, "beta")

\* save_task_result(student_id, task_id, result).
SaveTaskResult(student_id, task_id, task_result) ==
    Save(TaskKey(student_id, task_id), task_result, "gamma")

\* save_summary(student_id, summary), called when the clock reads now.
SaveSummary(student_id, summary, now) ==
    Save(SummaryKey(student_id, now), SummaryDoc(summary), "delta")

\* The patterns the provider is asked to list behind the facade:
\* "summaries/<student_id>/*" and "*".
SummaryPattern(student_id) ==
    [dirs |-> <<"summaries", student_id>>, name |-> <<"*">>]
FacadePatterns ==
    {SummaryPattern(id) : id \in StudentIds}
        \cup {[dirs |-> <<>>, name |-> <<"*">>]}

\* A ProfilePersistence over a JSONPersistence.
InitFacade == InitJSON

NextFacade ==
    \/ \E id \in StudentIds, v \in Dicts : SaveProfile(id, v)
    \/ \E id \in StudentIds : LoadProfile(id)
    \/ \E id \in StudentIds, sid \in SessionIds, v \in Dicts :
           SaveSession(id, sid, v)
    \/ \E id \in StudentIds, tid \in TaskIds, v \in Dicts :
           SaveTaskResult(id, tid, v)
    \/ \E id \in StudentIds, s \in Summaries, now \in Clock :
           SaveSummary(id, s, now)
    \/ \E p \in FacadePatterns : ListKeys(p, "delta")

SpecFacade == InitFacade /\ [][NextFacade]_vars

\* ---------------------------------------------- ContentAdaptationNode
notAgent ==
    <<graph, shared, flowctl, wirevars, nodevars, storevars, persistvars>>

\* What exec returns, as far as post reads it: the sentiment, and the
\* emotional_support and message_tone _parse_adaptations extracted.
Adaptations ==
    [sentiment : {"negative", "positive", "neutral"},
     emotional_support : {"high", "medium"},
     message_tone : {"celebratory", "encouraging"}]

\* The message _generate_adapted_content stores: "step_back" for "I can see
\* this might be challenging...", "different_way" for "Let me explain this
\* in a different way.", "fantastic" for "Fantastic work!...", "keep_going"
\* for "Great! Let's keep going.".
AdaptedContent(a) ==
    IF a.sentiment = "negative"
    THEN (IF a.emotional_support = "high" THEN "step_back"
          ELSE "different_way")
    ELSE IF a.sentiment = "positive"
    THEN (IF a.message_tone = "celebratory" THEN "fantastic"
          ELSE "keep_going")
    ELSE ""

\* post(shared, prep_res, exec_res) on a store nobody subscribed to.
Post(a) ==
    /\ Len(astore.logs) < MaxPosts
    /\ astore' =
          [keys |-> astore.keys \cup {"current_adaptations", "logs",
                                      "content_adapted", "adapted_content"},
           current_adaptations |-> a,
           logs |-> Append(IF "logs" \in astore.keys THEN astore.logs
                           ELSE <<>>,
                           [agent |-> "ContentAdapter",
                            sentiment |-> a.sentiment, adaptations |-> a]),
           content_adapted |-> TRUE,
           adapted_content |-> AdaptedContent(a)]
    /\ post_res' = "respond"
    /\ UNCHANGED notAgent

InitAdapt == InitJSON

NextAdapt == \E a \in Adaptations : Post(a)

SpecAdapt == InitAdapt /\ [][NextAdapt]_vars

\* ------------------------------------------------------ create_sage_flow
\* The names of the four agents create_sage_flow builds.
SageNodes == {"orchestrator", "profile", "respond", "adapt"}

\* The edges it installs: the branching table of the orchestrator, the
\* default edges of the profile agent and of the adapter; the responder has
\* no edge.
\* The placeholder entries "question" and "progress" are left out of the
\* table of the orchestrator.
SageTables_NoPlaceholders ==
    [n \in SageNodes |->
        IF n = "orchestrator"
        THEN [profile |-> "profile", respond |-> "respond", adapt |-> "adapt",
              end |-> None]
        ELSE <<>>]

SageTables ==
    [n \in SageNodes |->
        IF n = "orchestrator"
        THEN [profile |-> "profile", respond |-> "respond", adapt |-> "adapt",
              question |-> "respond", progress |-> "respond", end |-> None]
        ELSE <<>>]
\* The responder returns to the orchestrator as the profile agent does.
SageDefaults_ResponderReturns ==
    [n \in SageNodes |->
        IF n \in {"profile", "respond"} THEN "orchestrator"
        ELSE IF n = "adapt" THEN "respond"
        ELSE None]

\* The profile agent has no default edge.
SageDefaults_ProfileEnds ==
    [n \in SageNodes |-> IF n = "adapt" THEN "respond" ELSE None]

SageDefaults ==
    [n \in SageNodes |->
        IF n = "profile" THEN "orchestrator"
        ELSE IF n = "adapt" THEN "respond"
        ELSE None]

\* A student input as far as the orchestrator reads it: whether it is a
\* non-empty text, and which groups of intent words it contains ("assess":
\* test, quiz, assess; "explain": explain, help, understand; "progress":
\* progress, how am i doing).
NoInput == [text |-> FALSE, words |-> {}]
SageInputs ==
    {NoInput} \cup
    [text : {TRUE}, words : SUBSET {"assess", "explain", "progress"}]

\* The step bounds the command surface passes to Flow.run.
SageBounds == {5, 10}

\* AssistanceOrchestratorNode.exec on what prep gathered from store s.
Decide(s) ==
    IF ~s.student_input.text /\ s.learning_state = "interacting" THEN "end"
    ELSE IF ~s.has_profile THEN "profile"
    ELSE IF s.student_input.text
    THEN (IF "assess" \in s.student_input.words THEN "question"
          ELSE IF "explain" \in s.student_input.words THEN "adapt"
          ELSE IF "progress" \in s.student_input.words THEN "progress"
          ELSE "respond")
    ELSE IF s.learning_state = "initial" THEN "profile"
    ELSE IF s.learning_state = "learning" THEN "adapt"
    ELSE "respond"

\* state_map.get(exec_res, "active") in AssistanceOrchestratorNode.post.
StateMap(d) ==
    IF d = "profile" THEN "profiling"
    ELSE IF d = "adapt" THEN "learning"
    ELSE IF d = "question" THEN "assessing"
    ELSE IF d = "progress" THEN "reviewing"
    ELSE IF d = "respond" THEN "interacting"
    ELSE "active"

\* One iteration of the loop of Flow.run on an agent that returns action a
\* and leaves the store as s.
FlowStep(a, s) ==
    /\ pc = "loop"
    /\ mode = "sync"
    /\ LoopCond
    /\ history' = Visited(current_node)
    /\ shared' = s
    /\ action' = a
    /\ current_node' = NextNode(current_node, a)
    /\ steps' = steps + 1
    /\ UNCHANGED <<others, graph, pc, mode, max_steps, result, warned, fault,
                   pending, hist0, shared0, deterministic, behaviour, runs>>

\* The orchestrator runs: its decision is stored as next_agent, mapped to
\* the learning state, logged and returned.
OrchestratorStep ==
    /\ current_node = "orchestrator"
    /\ FlowStep(Decide(shared),
                [shared EXCEPT
                    !.next_agent = Decide(shared),
                    !.learning_state = StateMap(Decide(shared)),
                    !.logs = Append(@, [agent |-> "Orchestrator",
                                        what |-> Decide(shared)])])

\* The profile agent runs: either the answer of the LLM parses, the profile
\* of the current student is stored and logged, and "profile_complete" is
\* returned, or parsing raises and "profile_error" is returned.
\* The profile agent logs the analysis and returns "profile_complete"
\* without storing the profile.
ProfileStep_NoStore(parsed) ==
    /\ current_node = "profile"
    /\ IF parsed
       THEN FlowStep("profile_complete",
                     [shared EXCEPT
                         !.logs = Append(@, [agent |-> "LearningProfile",
                                             what |-> "profile_updated"])])
       ELSE FlowStep("profile_error", shared)
ProfileStep(parsed) ==
    /\ current_node = "profile"
    /\ IF parsed
       THEN FlowStep("profile_complete",
                     [shared EXCEPT
                         !.has_profile = TRUE,
                         !.logs = Append(@, [agent |-> "LearningProfile",
                                             what |-> "profile_updated"])])
       ELSE FlowStep("profile_error", shared)

\* The adapter runs with adaptations a: ContentAdaptationNode.post.
AdapterStep(a) ==
    /\ current_node = "adapt"
    /\ FlowStep("respond",
                [shared EXCEPT
                    !.current_adaptations = a,
                    !.logs = Append(@, [agent |-> "ContentAdapter",
                                        what |-> a.sentiment]),
                    !.content_adapted = TRUE,
                    !.adapted_content = AdaptedContent(a)])

\* The responder runs: the reply is added to the conversation and stored as
\* current_response, and the student input is cleared.
ResponderStep ==
    /\ current_node = "respond"
    /\ FlowStep("completed",
                [shared EXCEPT
                    !.replies = @ + 1,
                    !.current_response = TRUE,
                    !.student_input = NoInput])

\* The flow create_sage_flow returns, with the store it initialises; the
\* command surface may have loaded a profile of the current student.  The
\* store every call starts from is kept on record in shared0.
InitSage ==
    /\ next_nodes = SageTables
    /\ default_next = SageDefaults
    /\ start_node = "orchestrator"
    /\ InitIdle
    /\ shared \in [student_input : {NoInput}, learning_state : {"initial"},
                   has_profile : BOOLEAN, next_agent : {""}, logs : {<<>>},
                   current_adaptations : {NoAdaptations},
                   content_adapted : {FALSE}, adapted_content : {""},
                   replies : {0}, current_response : {FALSE}]
    /\ shared0 = shared
    /\ max_steps = 0
    /\ deterministic = FALSE

\* Its callers set a student input and call Flow.run with one of the bounds
\* of the command surface.
NextSage ==
    \/ \E i \in SageInputs : CallerSet([shared EXCEPT !.student_input = i])
    \/ \E N \in SageBounds : RunWithin(N, MaxVisits, shared)
    \/ OrchestratorStep
    \/ \E parsed \in BOOLEAN : ProfileStep(parsed)
    \/ \E a \in Adaptations : AdapterStep(a)
    \/ ResponderStep
    \/ Return

SpecSage == InitSage /\ [][NextSage]_vars

\* ------------------------------------------------------------- claims
\* The node run in the last completed step of the call in progress, and
\* whether the synchronous loop has just completed a step.
LastRun == history[Len(history)]
Stepped == mode = "sync" /\ steps > 0 /\ (pc = "loop" \/ result = "returned")

C2_Terminates ==
    /\ [](mode = "sync" => Len(history) - hist0 <= max_steps)
    /\ (pc = "loop") ~> (pc = "idle")

\* C2 witness: a call on a cycle was stopped by the bound after N > 0 runs.
C2_Witness ==
    /\ pc = "idle" /\ result = "returned" /\ max_steps > 0
    /\ current_node # None
    /\ Len(history) - hist0 = max_steps

\* C3 as claimed: a call stopped by the bound N returns with a history of
\* length N, whether or not the Flow was run before.
C3_Original ==
    (pc = "idle" /\ mode = "sync" /\ result = "returned" /\ steps >= max_steps)
        => Len(history) = max_steps

\* C3 as amended: when the step counter has reached the bound N, the call
\* returns normally, and the history has grown by exactly N entries in the
\* call: its length is the length before the call plus N.
C3_Amended ==
    [][(pc = "loop" /\ mode = "sync" /\ steps >= max_steps)
        => /\ pc' = "idle" /\ result' = "returned"
           /\ Len(history') = hist0 + max_steps]_vars

\* C3 witness: a call on a Flow that was run before was stopped by its bound
\* on a node that had a successor.
C3_Witness ==
    /\ pc = "idle" /\ mode = "sync" /\ result = "returned"
    /\ hist0 > 0 /\ max_steps > 0 /\ steps >= max_steps
    /\ current_node # None

\* C4: the history is append-only with one entry per step: a transition in
\* which a node is run (the step completes or the node raises) appends the
\* name of that node, also when the node raises; no other transition changes
\* the history.
C4_AppendOnly ==
    [][IF steps' = steps + 1 \/ (fault = None /\ fault' # None)
       THEN history' = Append(history, current_node)
       ELSE history' = history]_vars

\* C4 witness: a later call has appended to the history of an earlier one.
C4_Witness ==
    /\ hist0 > 0 /\ Len(history) > hist0 + 1
    /\ history[1] # history[Len(history)]

\* C5: when a node's run raises, the call ends with the exception (no
\* further node runs), the faulting node's name is the last history entry,
\* the history holds one entry per step of the call up to that one, and
\* current_node still is the faulting node.
C5_FaultPropagates ==
    fault # None =>
        /\ pc = "idle" /\ result = "raised"
        /\ current_node = fault
        /\ Len(history) = hist0 + steps + 1
        /\ history[Len(history)] = fault

\* C5 witness: the second node of a call raised after the first one returned.
C5_Witness ==
    /\ fault # None /\ steps = 1 /\ result = "raised"
    /\ history[Len(history) - 1] # fault

\* Node n is wired with the branching table {"x": B} only, B a node.
OnlyBranchX(n) ==
    /\ DOMAIN next_nodes[n] = {"x"}
    /\ next_nodes[n]["x"] \in Nodes
    /\ default_next[n] = None

\* C6: after a step of a node wired only with {"x": B}: when the action was
\* "x" the current node is B; after any other action (None included) the
\* current node is no node, and the call returns without raising.
C6_OnlyBranch ==
    (Stepped /\ OnlyBranchX(LastRun)) =>
        IF action = "x"
        THEN current_node = next_nodes[LastRun]["x"]
        ELSE /\ current_node = None
             /\ fault = None
             /\ pc = "idle" => (result = "returned" /\ Len(history) = hist0 + steps)

\* C6 witness: such a node returned an action other than "x" and None, and
\* the call returned before its bound.
C6_Witness ==
    /\ Stepped /\ OnlyBranchX(LastRun)
    /\ action = "y" /\ current_node = None
    /\ pc = "idle" /\ result = "returned" /\ steps < max_steps

\* Every outcome node n has shown returned action a.
Returns(n, a) ==
    \A b \in behaviour :
        b.node = n => (b.outcome.raises = "no" /\ b.outcome.act = a)

\* C7: with A's post returning "x" ("go"), A's branching table {"x": B},
\* B's post returning None and B without edges, the first call of Flow.run
\* from A with a bound of at least 2 yields the history [A, B] and ends
\* with no current node; no other node is run.
C7_Scenario ==
    \A a, b \in Nodes :
        ( /\ pc = "idle" /\ mode = "sync" /\ result # "none"
          /\ hist0 = 0 /\ max_steps >= 2
          /\ a # b /\ start_node = a
          /\ DOMAIN next_nodes[a] = {"x"} /\ next_nodes[a]["x"] = b
          /\ DOMAIN next_nodes[b] = {} /\ default_next[b] = None
          /\ Returns(a, "x") /\ Returns(b, None) )
        => /\ history = <<a, b>>
           /\ current_node = None
           /\ result = "returned"

\* C7 witness: the scenario has run from A, which also has a default edge.
C7_Witness ==
    /\ pc = "idle" /\ mode = "sync" /\ result = "returned"
    /\ hist0 = 0 /\ max_steps >= 2
    /\ start_node = "A" /\ default_next["A"] # None
    /\ DOMAIN next_nodes["A"] = {"x"} /\ next_nodes["A"]["x"] = "B"
    /\ DOMAIN next_nodes["B"] = {} /\ default_next["B"] = None
    /\ Returns("A", "x") /\ Returns("B", None)
    /\ history = <<"A", "B">>

\* Node n is a self-loop: its default edge and every branching entry it has
\* lead back to n.
SelfLoop(n) ==
    /\ default_next[n] = n
    /\ \A k \in DOMAIN next_nodes[n] : next_nodes[n][k] = n

C9_Original ==
    ( /\ Stepped
      /\ action \in DOMAIN next_nodes[LastRun]
      /\ next_nodes[LastRun][action] = None )
    => current_node = None

\* C9 as amended: when the returned action is non-empty and a key of the
\* node's branching table whose entry is None, the next current node is no
\* node, also when the node has a default edge, and the call returns after
\* that step.
C9_Amended ==
    ( /\ Stepped
      /\ action # None /\ action # ""
      /\ action \in DOMAIN next_nodes[LastRun]
      /\ next_nodes[LastRun][action] = None )
    => /\ current_node = None
       /\ pc = "idle" => (result = "returned" /\ Len(history) = hist0 + steps)

\* C9 witness: a node with a default edge returned an action whose entry is
\* None, and the call returned before its bound.
C9_Witness ==
    /\ Stepped /\ action = "x"
    /\ "x" \in DOMAIN next_nodes[LastRun]
    /\ next_nodes[LastRun]["x"] = None
    /\ default_next[LastRun] # None
    /\ current_node = None
    /\ pc = "idle" /\ result = "returned" /\ steps < max_steps

\* C10: for the same graph, the same initial store, the same bound and
\* deterministic nodes, a call of Flow.run and a call of Flow.run_async
\* append the same names to the history, end on the same current node,
\* leave the same store and both raise or both return.
C10_SameAsSync ==
    \A r1, r2 \in runs :
        ( /\ r1.mode = "sync" /\ r2.mode = "async"
          /\ r1.bound = r2.bound /\ r1.store0 = r2.store0 )
        => /\ r1.hist = r2.hist
           /\ r1.current = r2.current
           /\ r1.store = r2.store
           /\ r1.raised = r2.raised

\* C10 witness: both variants have run two steps from the same store,
\* starting on the AsyncNode, and a node has changed the store.
C10_Witness ==
    \E r1, r2 \in runs :
        /\ r1.mode = "sync" /\ r2.mode = "async"
        /\ r1.bound = r2.bound /\ r1.store0 = r2.store0
        /\ Len(r2.hist) = 2 /\ r2.hist[1] = "A" /\ r2.hist[2] = "B"
        /\ r2.store # r2.store0

\* Node invocations the call in progress has started and not yet completed
\* (an invocation completes when its step is counted).
InFlight == Len(history) - hist0 - steps

\* C11: within one call of Flow.run_async at most one node invocation is in
\* progress: an invocation is open exactly while it is suspended in
\* exec_async (or after it raised and ended the call); a node is started
\* only from the head of the loop, when every earlier invocation of the
\* call has completed its post and its dispatch; the call suspends only on
\* starting an AsyncNode, once, and the resumption completes that
\* invocation (post, dispatch and step count, or the fault) without
\* starting another node.
C11_OneAtATime ==
    /\ [](mode = "async" =>
            /\ InFlight \in {0, 1}
            /\ (InFlight = 1) <=> (pc = "await" \/ fault # None))
    /\ [][(mode = "async" /\ mode' = "async" /\ history' # history)
            => (pc = "loop" /\ InFlight = 0)]_vars
    /\ [][(pc # "await" /\ pc' = "await")
            => /\ pc = "loop" /\ current_node \in AsyncNodes
               /\ history' = Append(history, current_node)]_vars
    /\ [][pc = "await"
            => /\ pc' # "await" /\ history' = history
               /\ (steps' = steps + 1 \/ fault' = current_node)]_vars

\* C11 witness: the second AsyncNode invocation of a call is suspended in
\* exec_async after the first one completed.
C11_Witness ==
    /\ mode = "async" /\ pc = "await" /\ steps = 1
    /\ history[Len(history) - 1] \in AsyncNodes

FullRun(s, r) ==
    /\ Len(calls) = 3
    /\ calls[1].fn = "prep" /\ calls[1].args = <<s>> /\ calls[1].ret # Raise
    /\ calls[2].fn = "exec" /\ calls[2].args = <<calls[1].ret>>
    /\ calls[2].ret # Raise
    /\ calls[3].fn = "post" /\ calls[3].args = <<s, calls[1].ret, calls[2].ret>>
    /\ calls[3].ret = r

\* C13: a Node.run call that returns has called prep, exec and post in that
\* order, each once, prep with the store, exec with what prep returned, post
\* with the store and what prep and exec returned, and returns what post
\* returned; a call that raises has called the phases in that order up to
\* the one that raised, each once, and none after it.
C13_Phases ==
    /\ phase = "returned" =>
            /\ FullRun(calls[1].args[1], run_action)
            /\ run_action # Raise
    /\ phase = "raised" =>
            \/ Len(calls) = 1 /\ calls[1].fn = "prep" /\ calls[1].ret = Raise
            \/ /\ Len(calls) = 2
               /\ calls[1].fn = "prep" /\ calls[1].ret # Raise
               /\ calls[2].fn = "exec" /\ calls[2].args = <<calls[1].ret>>
               /\ calls[2].ret = Raise
            \/ FullRun(calls[1].args[1], Raise)

\* C13 witness: a run on a filled store returned an action after prep and
\* exec returned different values.
C13_Witness ==
    /\ phase = "returned" /\ run_action = "x"
    /\ calls[1].args = <<"v0">>
    /\ calls[1].ret = "p1" /\ calls[2].ret = "e2"

\* C14: a node to which the table form of >> was applied has the last table
\* applied as its branching table, a node to which the node form was applied
\* has the last node applied as its default edge, whatever the order of the
\* applications; a form never applied leaves its field as constructed
\* (empty table, no default edge).
C14_Rshift ==
    \A n \in Nodes :
        /\ next_nodes[n] =
              IF "table" \in wired[n].forms THEN wired[n].table ELSE <<>>
        /\ default_next[n] =
              IF "default" \in wired[n].forms THEN wired[n].default ELSE None

\* C14 witness: both forms were applied to node A, which has a non-empty
\* branching table and a default edge.
C14_Witness ==
    /\ wired["A"].forms = {"table", "default"}
    /\ DOMAIN next_nodes["A"] = {"x"} /\ next_nodes["A"]["x"] = "A"
    /\ default_next["A"] = "B"

\* The set calls made so far, the callback invocations made for set call c,
\* the callbacks of a sequence of invocations, and the number of times
\* callback cb occurs in a sequence of callbacks.
Calls == 1..Len(setcalls)
CbsOf(c) == LET Test(e) == e.call = c IN SelectSeq(log, Test)
Names(es) == [i \in 1..Len(es) |-> es[i].cb]
Count(cb, cs) == Cardinality({i \in 1..Len(cs) : cs[i] = cb})
IsPrefix(a, b) == Len(a) <= Len(b) /\ a = SubSeq(b, 1, Len(a))

\* The value of the last set call made on key k (None before the first).
LastOn(k) ==
    LET idx == {i \in Calls : setcalls[i].key = k}
    IN IF idx = {} THEN None
       ELSE setcalls[CHOOSE i \in idx : \A j \in idx : j <= i].value

\* C15: a set(K, V) call stores V under K before any callback is invoked
\* for it; the callbacks it invokes are, with (K, V) as arguments, the ones
\* subscribed to K when it was called, in the order of their subscription;
\* it returns only when all of them have been invoked, and while it has not
\* returned it is still in progress.
C15_StoreThenNotify ==
    /\ [][Len(setcalls') > Len(setcalls) =>
            LET c == setcalls'[Len(setcalls')]
            IN store'[c.key] = c.value /\ log' = log]_vars
    /\ [](\A c \in Calls :
            /\ IsPrefix(Names(CbsOf(c)), setcalls[c].subs)
            /\ \A i \in 1..Len(CbsOf(c)) :
                  /\ CbsOf(c)[i].key = setcalls[c].key
                  /\ CbsOf(c)[i].value = setcalls[c].value
            /\ setcalls[c].status = "returned" =>
                  Names(CbsOf(c)) = setcalls[c].subs
            /\ setcalls[c].status = "active" <=>
                  \E d \in 1..Len(stack) : stack[d].call = c)

\* C15 witness: a set call on a key with two subscribers has returned
\* after invoking c2, subscribed first, and then c1.
C15_Witness ==
    \E c \in Calls :
        /\ setcalls[c].status = "returned"
        /\ setcalls[c].subs = <<"c2", "c1">>
        /\ Names(CbsOf(c)) = <<"c2", "c1">>

\* Every invocation made is for a callback subscribed to the key of the set
\* call it belongs to, with that call's key and value.
OwnKeyOnly ==
    \A i \in 1..Len(log) :
        /\ log[i].key = setcalls[log[i].call].key
        /\ log[i].value = setcalls[log[i].call].value
        /\ Count(log[i].cb, setcalls[log[i].call].subs) > 0

\* C16 as claimed: for every finished set call (set, update entry or
\* assignment), a callback subscribed once to its key has been invoked
\* exactly once for it, with the call's key and value; no callback is
\* invoked for a set on a key it is not subscribed to.
C16_Original ==
    /\ OwnKeyOnly
    /\ \A c \in Calls, cb \in Callbacks :
          (setcalls[c].status # "active" /\ Count(cb, setcalls[c].subs) = 1)
          => Count(cb, Names(CbsOf(c))) = 1

\* C16 as amended: for every set call that returned, a callback subscribed
\* once to its key has been invoked exactly once for it, with the call's
\* key and value; for a set call ended by a callback's fault, the last
\* callback invoked is the faulting one, and a callback subscribed once has
\* been invoked once if it is that one or was subscribed before it, and not
\* at all if it was subscribed after it; no callback is invoked for a set
\* on a key it is not subscribed to.
C16_Amended ==
    /\ OwnKeyOnly
    /\ \A c \in Calls, cb \in Callbacks :
          Count(cb, setcalls[c].subs) = 1 =>
              LET n == Len(CbsOf(c))
                  pos == CHOOSE i \in 1..Len(setcalls[c].subs) :
                             setcalls[c].subs[i] = cb
              IN /\ setcalls[c].status = "returned" =>
                        Count(cb, Names(CbsOf(c))) = 1
                 /\ setcalls[c].status = "raised" =>
                        /\ n > 0 /\ CbsOf(c)[n].outcome = "raised"
                        /\ Count(cb, Names(CbsOf(c))) =
                              IF pos <= n THEN 1 ELSE 0

\* C16 witness: an update of both keys has returned; c1, subscribed once to
\* k1 only, was invoked once in all, and c2, subscribed after c1 to k1, too.
C16_Witness ==
    /\ op.kind = "update" /\ Len(op.entries) = 2 /\ sresult = "returned"
    /\ listeners["k1"] = <<"c1", "c2">> /\ listeners["k2"] = <<>>
    /\ Names(log) = <<"c1", "c2">>

\* The set calls update has made for the entries of the update in progress
\* or last made.
UpdCalls ==
    LET Test(c) == c.via = "update"
    IN SelectSeq(SubSeq(setcalls, op.first + 1, Len(setcalls)), Test)

\* C17: update makes one set call per entry, in the order of the entries,
\* each with the notification of a plain set; when the notification of an
\* entry raises, the update ends with the fault, no set is made for the
\* entries after it, and nothing is undone: every key holds the value of
\* the last set made on it, the faulting entry's included.
C17_UpdateNotAtomic ==
    /\ [](\A k \in StoreKeys : store[k] = LastOn(k))
    /\ [](op.kind = "update" =>
            LET m == op.entries
                made == UpdCalls
                j == Len(UpdCalls)
            IN /\ j <= Len(m)
               /\ \A i \in 1..j :
                     made[i].key = m[i][1] /\ made[i].value = m[i][2]
               /\ \A i \in 1..(j - 1) : made[i].status = "returned"
               /\ todo = SubSeq(m, j + 1, Len(m))
               /\ sresult = "returned" =>
                     (j = Len(m) /\ \A i \in 1..j : made[i].status = "returned")
               /\ sresult = "raised" =>
                     (j >= 1 /\ made[j].status = "raised" /\ stack = <<>>))
    /\ [](\A c \in Calls :
            (setcalls[c].via = "update" /\ setcalls[c].status = "returned")
            => Names(CbsOf(c)) = setcalls[c].subs)
    /\ [][(op.kind = "update" /\ sresult = "raised" /\ op' = op)
            => (store' = store /\ setcalls' = setcalls /\ todo' = todo)]_vars

\* C17 witness: an update of two entries ended with the fault of the first
\* entry's notification: that entry's value is stored, the second entry's
\* key was never set.
C17_Witness ==
    /\ op.kind = "update" /\ Len(op.entries) = 2 /\ sresult = "raised"
    /\ Len(UpdCalls) = 1 /\ Len(todo) = 1
    /\ store[op.entries[1][1]] = op.entries[1][2]
    /\ store[op.entries[2][1]] = None

\* C18: when a callback invoked for a set call raises, the set call ends
\* with the fault (for a call by the user of the store, the user's call
\* ends with it), no further callback is invoked for that set call, and the
\* value stays stored (until another set on the key).
C18_SubscriberFault ==
    \A i \in 1..Len(log) :
        log[i].outcome = "raised" =>
            LET c == log[i].call
            IN /\ setcalls[c].status = "raised"
               /\ \A d \in 1..Len(stack) : stack[d].call # c
               /\ \A j \in (i + 1)..Len(log) : log[j].call # c
               /\ (setcalls[c].via # "callback" /\ c > op.first)
                     => (sresult = "raised" /\ stack = <<>>)
               /\ (\A d \in (c + 1)..Len(setcalls) :
                       setcalls[d].key # setcalls[c].key)
                     => store[setcalls[c].key] = setcalls[c].value

\* C18 witness: the first of two subscribers of a key raised for a set by
\* the user: the second was not invoked and the value is stored.
C18_Witness ==
    /\ op.kind = "set" /\ sresult = "raised"
    /\ Len(setcalls) = 1 /\ Len(setcalls[1].subs) = 2
    /\ Len(log) = 1 /\ log[1].outcome = "raised"
    /\ store[setcalls[1].key] = setcalls[1].value

\* A value json.dump and json.load give back unchanged: its dict keys are
\* str and it holds no tuple.
Native(v) == v.keys = "str" /\ v.seq # "tuple"

\* C19 as claimed: load(K, T) right after save(K, V, T) returns exactly V,
\* for every tier, key and value.
C19_Original ==
    last.op = "save" => LoadIn(disk, last.key, last.tier) = last.value

\* C19 as amended: load(K, T) right after save(K, V, T) returns V as JSON
\* gives it back: V itself when V has str keys and no tuple; otherwise V
\* with its int keys as str and its tuples as lists.
C19_Amended ==
    last.op = "save" =>
        LET got == LoadIn(disk, last.key, last.tier)
        IN /\ Native(last.value) => got = last.value
           /\ got = [last.value EXCEPT
                        !.keys = "str",
                        !.seq = IF @ = "tuple" THEN "list" ELSE @]

\* C19 witness: the second save overwrote the file of key a/b in tier delta
\* with a value holding a list, which load returns.
C19_Witness ==
    /\ last.op = "save" /\ nsaves = 2
    /\ last.key = <<"a", "/", "b">> /\ last.tier = "delta"
    /\ last.value.seq = "list" /\ last.value.keys = "str"
    /\ disk[GetPath(last.key, last.tier)].timestamp = 2
    /\ LoadIn(disk, last.key, last.tier) = last.value

\* C20: a save to one tier changes, in every other tier, no result of load,
\* of exists or of list_keys (so two values saved under one key in two
\* tiers, in either order, are each loaded from their own tier).
C20_Isolated ==
    [][nsaves' # nsaves =>
        \A t \in Tiers \ {last'.tier} :
            /\ \A k \in PKeys :
                  /\ LoadIn(disk', k, t) = LoadIn(disk, k, t)
                  /\ ExistsIn(disk', k, t) = ExistsIn(disk, k, t)
            /\ \A p \in Patterns :
                  ListKeysIn(disk', p, t) = ListKeysIn(disk, p, t)]_vars

\* Some key saved in tier t has the file of key k.
FileTaken(k, t) ==
    \E q \in saved : q[2] = t /\ GetPath(q[1], t) = GetPath(k, t)

\* C21 as claimed: a key never saved in a tier is not loaded from it and
\* does not exist in it, whatever was saved under other keys and in other
\* tiers.
C21_Original ==
    \A k \in PKeys, t \in Tiers :
        <<k, t>> \notin saved =>
            (LoadIn(disk, k, t) = PyNone /\ ~ExistsIn(disk, k, t))

\* C21 as amended: a key exists in a tier exactly when a key of the same
\* file name (the key with "/" and "\" turned into "_") was saved in that
\* tier; a key for which no such key was saved in the tier, whatever was
\* saved under other names and in other tiers, is not loaded from it.
C21_Amended ==
    \A k \in PKeys, t \in Tiers :
        /\ ExistsIn(disk, k, t) <=> FileTaken(k, t)
        /\ ~FileTaken(k, t) => LoadIn(disk, k, t) = PyNone

\* C21 witness: a/b was saved in beta and another key in alpha; a/b is
\* absent from alpha.
C21_Witness ==
    /\ saved = {<<<<"a">>, "alpha">>, <<<<"a", "/", "b">>, "beta">>}
    /\ LoadIn(disk, <<"a", "/", "b">>, "alpha") = PyNone
    /\ ~ExistsIn(disk, <<"a", "/", "b">>, "alpha")
    /\ ExistsIn(disk, <<"a", "/", "b">>, "beta")

\* The pattern string of pattern p: its directory components and its stem
\* pattern joined with "/".
RECURSIVE Joined(_)
Joined(ds) ==
    IF ds = <<>> THEN <<>>
    ELSE (IF Head(ds) = ".." THEN <<".", ".">> ELSE <<Head(ds)>>)
         \o <<"/">> \o Joined(Tail(ds))
FullPattern(p) == Joined(p.dirs) \o p.name

\* C22: list_keys(pattern, T) is the sorted sequence of exactly the keys
\* saved in tier T that match the pattern, each spelled as it was passed to
\* save.
C22_ExactKeys ==
    \A p \in Patterns, t \in Tiers :
        ListKeysIn(disk, p, t) =
            Sorted({k \in PKeys : <<k, t>> \in saved /\ Match(FullPattern(p), k)})

\* C23: in every tier, list_keys("a/*") is exactly the keys of prefix "a/"
\* saved in that tier (so the keys saved in one tier are not listed in
\* another, and keys of another prefix are not listed).
C23_PrefixListing ==
    \A t \in Tiers :
        ListKeysIn(disk, [dirs |-> <<"a">>, name |-> <<"*">>], t) =
            Sorted({k \in ScenKeys :
                       <<k, t>> \in saved /\ k[1] = "a" /\ k[2] = "/"})

\* The records tier t holds for key k on disk d.
RecordsOf(d, k, t) ==
    {q \in DOMAIN d : q[1] = t /\ "key" \in DOMAIN d[q] /\ d[q].key = k}

\* C24 as claimed: a save of a key already saved in the tier leaves a single
\* record for the key in the tier, and load returns exactly the value just
\* saved.
C24_Original ==
    [][(nsaves' # nsaves /\ <<last'.key, last'.tier>> \in saved)
        => /\ LoadIn(disk', last'.key, last'.tier) = last'.value
           /\ Cardinality(RecordsOf(disk', last'.key, last'.tier)) = 1]_vars

\* C24 as amended: a save of a key already saved in the tier creates no
\* file and replaces the whole record by the new one (key, tier, time and
\* the new value, nothing kept from the old record); the tier holds a
\* single record for the key; load returns the new value as JSON gives it
\* back, which is exactly the new value when it has str keys and no tuple.
C24_Amended ==
    [][(nsaves' # nsaves /\ <<last'.key, last'.tier>> \in saved)
        => LET k == last'.key
               t == last'.tier
               v == last'.value
           IN /\ DOMAIN disk' = DOMAIN disk
              /\ disk'[GetPath(k, t)] = Wrapped(k, v, t, nsaves')
              /\ Cardinality(RecordsOf(disk', k, t)) = 1
              /\ LoadIn(disk', k, t) = Parse(Dump(v))
              /\ Native(v) => LoadIn(disk', k, t) = v]_vars

\* C24 witness: the same key was saved twice in one tier; the one file
\* holds the second record and load returns the second value.
C24_Witness ==
    /\ nsaves = 2 /\ Cardinality(saved) = 1 /\ Cardinality(DOMAIN disk) = 1
    /\ last.op = "save" /\ Native(last.value) /\ last.value.seq = "list"
    /\ disk[GetPath(last.key, last.tier)].timestamp = 2
    /\ LoadIn(disk, last.key, last.tier) = last.value

\* The file of key k in tier t is there but does not hold a record with a
\* "data" member that can be read.
Unusable(k, t) ==
    /\ GetPath(k, t) \in DOMAIN disk
    /\ \/ Unloadable(disk[GetPath(k, t)])
       \/ "data" \notin DOMAIN disk[GetPath(k, t)]

SeparatorsApart(k1, k2) ==
    /\ k1 # k2
    /\ Len(k1) = Len(k2)
    /\ \A i \in 1..Len(k1) : k1[i] = k2[i] \/ {k1[i], k2[i]} = {"/", "\\"}

\* C26: two distinct keys that differ only in their separators have the same
\* storage location in a tier, and once the second is saved over the first,
\* load of the first returns the second's data.
C26_SeparatorCollision ==
    \A k1 \in CollKeys, k2 \in CollKeys, t \in Tiers :
        SeparatorsApart(k1, k2) =>
            /\ GetPath(k1, t) = GetPath(k2, t)
            /\ (/\ last.op = "save" /\ last.key = k2 /\ last.tier = t
                /\ <<k1, t>> \in saved) =>
                   /\ LoadIn(disk, k1, t) = last.value
                   /\ disk[GetPath(k1, t)].key = k2
            /\ (/\ last.op = "load" /\ last.key = k1 /\ last.tier = t
                /\ GetPath(k1, t) \in DOMAIN disk
                /\ disk[GetPath(k1, t)].key = k2) =>
                   last.value = Parse(disk[GetPath(k2, t)].data)

\* C26 witness: "a/b" was saved, "a\b" was saved after it in the same tier,
\* and load of "a/b" returned what was saved under "a\b".
C26_Witness ==
    /\ last.op = "load" /\ last.key = <<"a", "/", "b">>
    /\ {<<<<"a", "/", "b">>, last.tier>>, <<<<"a", "\\", "b">>, last.tier>>}
           \subseteq saved
    /\ disk[GetPath(last.key, last.tier)].key = <<"a", "\\", "b">>
    /\ last.value = Parse(disk[GetPath(<<"a", "\\", "b">>, last.tier)].data)
    /\ Cardinality(DOMAIN disk) = 1

\* Key k starts with the prefix p.
HasPrefix(k, p) == Len(k) > Len(p) /\ SubSeq(k, 1, Len(p)) = p

\* The prefix and the tier of a facade call.
Bindings ==
    {<<ProfilesPrefix, "alpha">>, <<SessionsPrefix, "beta">>,
     <<TasksPrefix, "gamma">>, <<SummariesPrefix, "delta">>}

\* A step of the facade that saved: one record is written, under a key of
\* one of the four prefixes in the tier bound to it, and every other file,
\* so every other tier, is as before.
BoundSave ==
    /\ \E b \in Bindings : HasPrefix(last'.key, b[1]) /\ last'.tier = b[2]
    /\ DOMAIN disk' = DOMAIN disk \cup {GetPath(last'.key, last'.tier)}
    /\ \A q \in DOMAIN disk :
           q # GetPath(last'.key, last'.tier) => disk'[q] = disk[q]
    /\ disk'[GetPath(last'.key, last'.tier)].key = last'.key

\* A step of load_profile: the profiles key is loaded from ALPHA.
BoundLoad ==
    /\ HasPrefix(last'.key, ProfilesPrefix) /\ last'.tier = "alpha"
    /\ last'.value = LoadIn(disk, last'.key, "alpha")
    /\ disk' = disk

\* C27 as claimed: each facade save writes one record under its prefix in
\* its tier and leaves the other tiers alone, and load with that key from
\* that tier (load_profile for profiles) returns the saved data itself.
C27_Original ==
    [][/\ nsaves' # nsaves =>
             (BoundSave /\ LoadIn(disk', last'.key, last'.tier) = last'.value)
       /\ (last' # last /\ last'.op = "load") => BoundLoad]_vars

\* C27 amended: as claimed, but the data load returns is the saved data as
\* JSON gives it back: the saved data itself when it holds no tuple.
C27_Amended ==
    [][/\ nsaves' # nsaves =>
             /\ BoundSave
             /\ LoadIn(disk', last'.key, last'.tier)
                    = Parse(Dump(last'.value))
             /\ Native(last'.value) =>
                    LoadIn(disk', last'.key, last'.tier) = last'.value
       /\ (last' # last /\ last'.op = "load") => BoundLoad]_vars

\* C27 witness: a session was saved to BETA and a profile to ALPHA, and
\* load_profile returned the profile.
C27_Witness ==
    /\ last.op = "load" /\ last.tier = "alpha"
    /\ HasPrefix(last.key, ProfilesPrefix)
    /\ last.value \in Dicts
    /\ \E id \in StudentIds, sid \in SessionIds :
           /\ <<SessionKey(id, sid), "beta">> \in saved
           /\ GetPath(SessionKey(id, sid), "beta") \in DOMAIN disk
    /\ Cardinality(DOMAIN disk) = 2

\* C28: after a single save_summary(student_id, summary) on an empty store,
\* list_keys("summaries/<student_id>/*", DELTA) has exactly one key, and
\* load of that key from DELTA gives a record whose summary is the one
\* saved.
C28_SummaryListed ==
    \A id \in StudentIds, now \in Clock :
        (nsaves = 1 /\ saved = {<<SummaryKey(id, now), "delta">>}) =>
            /\ Len(ListKeysIn(disk, SummaryPattern(id), "delta")) = 1
            /\ LoadIn(disk, ListKeysIn(disk, SummaryPattern(id), "delta")[1],
                      "delta").leaf \in Summaries

\* C29: post stores the adaptation decisions in the store
\* (current_adaptations, content_adapted true, adapted_content, a log
\* entry) and returns the action label "orchestrator".
C29_PostToOrchestrator ==
    post_res # None =>
        /\ post_res = "orchestrator"
        /\ {"current_adaptations", "content_adapted", "adapted_content",
            "logs"} \subseteq astore.keys
        /\ astore.current_adaptations \in Adaptations
        /\ astore.content_adapted
        /\ astore.adapted_content = AdaptedContent(astore.current_adaptations)
        /\ astore.logs[Len(astore.logs)].adaptations
               = astore.current_adaptations

CallBegins == pc = "idle" /\ pc' = "loop"

\* C31: every call of Flow.run and Flow.run_async starts at the start node,
\* wherever the previous call stopped, and leaves the history of the earlier
\* calls in place: the history only grows, a call's visits are what follows
\* the entries present when it began, and the first of them is the start
\* node (a call with a bound of at least 1 has one).
C31_CallsConcatenate ==
    /\ [](/\ Len(history) >= hist0
          /\ Len(history) > hist0 => history[hist0 + 1] = start_node
          /\ (pc = "idle" /\ result = "returned" /\ max_steps >= 1) =>
                 Len(history) > hist0)
    /\ [][/\ CallBegins =>
                /\ current_node' = start_node
                /\ history' = history
                /\ hist0' = Len(history)
          /\ ~CallBegins => hist0' = hist0
          /\ Len(history') >= Len(history)
          /\ SubSeq(history', 1, Len(history)) = history]_vars

\* C31 witness: an earlier call stopped at a node other than the start node,
\* and the call after it has visited the start node first, after the
\* entries of the earlier call.
C31_Witness ==
    /\ hist0 > 0 /\ Len(history) > hist0
    /\ history[hist0 + 1] = start_node
    /\ \E r \in runs : r.current # None /\ r.current # start_node
    /\ history[hist0] # start_node

\* C32: Flow.run and Flow.run_async on a Flow without start node raise
\* before any step: every call made on such a Flow ends raised, with the
\* history, the current node and the store as they were, and no node run.
C32_NoStartRaises ==
    /\ [](start_node = None =>
             /\ history = <<>> /\ steps = 0 /\ behaviour = {}
             /\ pc = "idle" /\ result \in {"none", "raised"})
    /\ [][start_node = None =>
             /\ result' = "raised"
             /\ history' = history
             /\ current_node' = current_node
             /\ shared' = shared
             /\ steps' = steps
             /\ pc' = "idle"]_vars

\* C32 witness: a call was made on a Flow without start node and raised;
\* the history is empty and no node is current.
C32_Witness ==
    /\ start_node = None /\ result = "raised" /\ pc = "idle"
    /\ history = <<>> /\ current_node = None /\ shared = None

\* C33: a call of Flow.run that returns has printed the warning exactly when
\* the steps it executed are at least max_steps, whether or not a node is
\* still current: not after an unresolved dispatch in fewer steps, but after
\* a run that ended on no node in exactly max_steps steps, and after every
\* run with max_steps = 0.
C33_WarnsAtBound ==
    (pc = "idle" /\ mode = "sync" /\ result = "returned") =>
        /\ steps = Len(history) - hist0
        /\ warned <=> steps >= max_steps
        /\ (current_node = None /\ steps < max_steps) => ~warned
        /\ (current_node = None /\ steps = max_steps) => warned
        /\ max_steps = 0 => warned

\* C33 witness: a run reached the end of the graph in exactly max_steps
\* steps, with a bound of at least 1, and the warning was printed.
C33_Witness ==
    /\ pc = "idle" /\ mode = "sync" /\ result = "returned"
    /\ max_steps >= 1 /\ steps = max_steps /\ current_node = None
    /\ warned

\* C34 as claimed: whenever a subscriber is invoked with (K, V), the store
\* holds V under K, subscribers that call set while being notified included.
C34_Original ==
    \A i \in 1..Len(log) : log[i].seen = log[i].value

\* Invocation i is the first one its set call made.
FirstOfCall(i) == \A j \in 1..(i - 1) : log[j].call # log[i].call

\* C34 as amended: whenever a subscriber is invoked with (K, V), the store
\* holds under K either V or the value a subscriber notified before it has
\* set under K in the meantime; it holds V for the first subscriber a set
\* call invokes, and for every subscriber when no subscriber has called set
\* on K.
C34_Amended ==
    \A i \in 1..Len(log) :
        /\ FirstOfCall(i) => log[i].seen = log[i].value
        /\ log[i].seen # log[i].value =>
              \E c \in Calls :
                  /\ c > log[i].call
                  /\ setcalls[c].via = "callback"
                  /\ setcalls[c].key = log[i].key
                  /\ setcalls[c].value = log[i].seen
        /\ (\A c \in Calls :
               setcalls[c].via = "callback" => setcalls[c].key # log[i].key)
              => log[i].seen = log[i].value

\* C34 witness: c1, notified of set(k1, a), has set k1 to b; c2, subscribed
\* after it, is then invoked with (k1, a) while the store holds b.
C34_Witness ==
    \E i \in 1..Len(log) :
        /\ ~FirstOfCall(i)
        /\ log[i].key = "k1" /\ log[i].value = "a" /\ log[i].seen = "b"
        /\ log[i].cb = "c2"
        /\ store["k1"] = "b"

\* The positions in the history of the visits of the call in progress, or
\* of the last call made.
ThisRun == (hist0 + 1)..Len(history)

\* C35: in the flow of create_sage_flow the step that runs the responder
\* ends the run (it returns "completed", which resolves to no node), so in
\* the visits of one run the responder occurs at most once, as the last
\* entry, and the orchestrator never follows it.
C35_ResponderEnds ==
    /\ [](\A i \in ThisRun :
             history[i] = "respond" =>
                 /\ i = Len(history)
                 /\ current_node = None
                 /\ action = "completed")
    /\ [][current_node = "respond" /\ steps' = steps + 1 =>
             /\ current_node' = None
             /\ action' = "completed"]_vars

\* C35 witness: a run has gone through the orchestrator and the adapter to
\* the responder and returned there, short of its bound.
C35_Witness ==
    /\ pc = "idle" /\ result = "returned" /\ steps < max_steps
    /\ Len(history) - hist0 = 3
    /\ history[hist0 + 1] = "orchestrator"
    /\ history[hist0 + 2] = "adapt"
    /\ history[hist0 + 3] = "respond"
    /\ current_node = None

\* The learning state the claim pairs with each decision.
MappedState ==
    [profile |-> "profiling", adapt |-> "learning", question |-> "assessing",
     progress |-> "reviewing", respond |-> "interacting", end |-> "active"]

\* C36: every action the orchestrator returns is one of profile, respond,
\* adapt, question, progress and end, and a key of its branching table, so
\* its dispatch follows the table: the run ends by it only through "end",
\* which it returns only on an empty student input in state "interacting";
\* after its step learning_state is the state mapped to its decision.
C36_OrchestratorResolved ==
    [][(current_node = "orchestrator" /\ steps' = steps + 1) =>
          /\ action' \in DOMAIN MappedState
          /\ action' \in DOMAIN next_nodes["orchestrator"]
          /\ current_node' = next_nodes["orchestrator"][action']
          /\ current_node' = None <=> action' = "end"
          /\ action' = "end" =>
                /\ ~shared.student_input.text
                /\ shared.learning_state = "interacting"
          /\ shared'.learning_state = MappedState[action']
          /\ shared'.next_agent = action']_vars

\* C36 witness: a run made without student input after the responder
\* answered ended at the orchestrator through "end".
C36_Witness ==
    /\ pc = "idle" /\ result = "returned"
    /\ Len(history) - hist0 = 1 /\ history[Len(history)] = "orchestrator"
    /\ action = "end" /\ current_node = None
    /\ shared.learning_state = "active"
    /\ shared.replies > 0

\* The visits of node n in this run, and the number of visits in which the
\* profile agent succeeded (the orchestrator and the adapter log one entry
\* per visit, the profile agent one per success, the responder none).
VisitsOf(n) == {i \in ThisRun : history[i] = n}
ProfileSuccesses ==
    Len(shared.logs) - Len(shared0.logs)
        - Cardinality(VisitsOf("orchestrator")) - Cardinality(VisitsOf("adapt"))
Finished37 == pc = "idle" /\ result = "returned"

\* C37 as claimed: a run in which the profile agent succeeds visits it at
\* most once and takes at most 4 steps, ending at the responder or through
\* "end" short of its bound (5 or 10).
C37_Original ==
    ProfileSuccesses > 0 =>
        /\ Cardinality(VisitsOf("profile")) <= 1
        /\ steps <= 4
        /\ Finished37 =>
              /\ current_node = None
              /\ LastRun = "respond" \/ action = "end"
              /\ steps < max_steps

\* C37 as amended: the profile agent succeeds at most once in a run, on its
\* last visit, every earlier visit having failed; the run never ends
\* through "end"; after the success it takes the orchestrator and then the
\* responder, or the orchestrator, the adapter and the responder.  When the
\* success is the first visit the run ends at the responder after 4 steps,
\* or after 5 when the adapter is taken: short of the bound 10, but at the
\* bound 5 in the five-step case, where the warning is printed.
C37_Amended ==
    /\ ProfileSuccesses \in {0, 1}
    /\ ProfileSuccesses = 1 =>
          LET k == Cardinality(VisitsOf("profile"))
          IN /\ k >= 1
             /\ VisitsOf("profile") = {hist0 + 2 * j : j \in 1..k}
             /\ shared.has_profile
             /\ action # "end"
             /\ steps <= 2 * k + 3
             /\ (Finished37 /\ k = 1) =>
                   /\ current_node = None
                   /\ LastRun = "respond"
                   /\ steps = 4 + Cardinality(VisitsOf("adapt"))
                   /\ Cardinality(VisitsOf("adapt")) <= 1
                   /\ warned <=> (steps = 5 /\ max_steps = 5)
                   /\ max_steps = 10 => steps < max_steps

\* C37 witness: a run with bound 5 in which the profile agent succeeded on
\* its only visit went on to the adapter and ended at the responder in its
\* fifth step, with the warning.
C37_Witness ==
    /\ Finished37 /\ max_steps = 5 /\ steps = 5 /\ warned
    /\ ProfileSuccesses = 1
    /\ Cardinality(VisitsOf("profile")) = 1
    /\ Cardinality(VisitsOf("adapt")) = 1
    /\ LastRun = "respond" /\ current_node = None

\* The edges of the graph as wired, the nodes each node reaches by one or
\* more edges, and the edges that lie on a cycle.
Edges38 ==
    {e \in SageNodes \X SageNodes :
        \/ \E a \in DOMAIN next_nodes[e[1]] : next_nodes[e[1]][a] = e[2]
        \/ default_next[e[1]] = e[2]}
RECURSIVE Reach38(_, _)
Reach38(S, n) ==
    LET T == S \cup {e[2] : e \in {d \in Edges38 : d[1] \in S}}
    IN IF n = 0 \/ T = S THEN S ELSE Reach38(T, n - 1)
After38(m) == Reach38({e[2] : e \in {d \in Edges38 : d[1] = m}}, 4)
CycleEdges38 == {e \in Edges38 : e[1] \in After38(e[2])}
OnlyCycle38 ==
    CycleEdges38 = {<<"orchestrator", "profile">>, <<"profile", "orchestrator">>}
\* A failing profile step stores nothing (the store is left as it was) and
\* hands over to the orchestrator.
FailureReturns38 ==
    [][(current_node = "profile" /\ steps' = steps + 1
            /\ action' = "profile_error")
         => (shared' = shared /\ current_node' = "orchestrator")]_vars
AfterFailure38 ==
    pc = "loop" /\ current_node = "orchestrator" /\ action = "profile_error"
Alternates38 ==
    \A i \in ThisRun :
        history[i] = IF (i - hist0) % 2 = 1 THEN "orchestrator" ELSE "profile"
NeverSucceeded38 == VisitsOf("profile") # {} /\ ProfileSuccesses = 0

\* C38 as claimed: the only cycle is orchestrator -> profile ->
\* orchestrator; a failing profile step stores nothing and returns to the
\* orchestrator, which selects "profile" again; a run whose profile visits
\* all fail never reaches the responder, alternates orchestrator and
\* profile, and stops only at the step bound.
C38_Original ==
    /\ [](/\ OnlyCycle38
          /\ AfterFailure38 => Decide(shared) = "profile"
          /\ NeverSucceeded38 =>
                /\ VisitsOf("respond") = {}
                /\ Alternates38
                /\ Finished37 => (steps = max_steps /\ current_node # None))
    /\ FailureReturns38

\* C38 as amended: after a failure the orchestrator selects "profile" again
\* exactly when the current student has no profile.  For such a student a
\* run whose profile visits all fail never reaches the responder,
\* alternates orchestrator and profile and stops only at the step bound,
\* with the warning.  For a student whose profile was loaded before the
\* run, the failing visit is the only one and the run goes on to the
\* responder: orchestrator, profile, orchestrator, respond.
C38_Amended ==
    /\ [](/\ OnlyCycle38
          /\ AfterFailure38 =>
                (Decide(shared) = "profile" <=> ~shared.has_profile)
          /\ (NeverSucceeded38 /\ ~shared.has_profile) =>
                /\ VisitsOf("respond") = {}
                /\ Alternates38
                /\ Finished37 =>
                      /\ steps = max_steps /\ warned
                      /\ current_node \in {"orchestrator", "profile"}
          /\ (NeverSucceeded38 /\ shared0.has_profile) =>
                /\ VisitsOf("profile") = {hist0 + 2}
                /\ steps <= 4
                /\ Finished37 =>
                      /\ steps = 4 /\ ~warned /\ current_node = None
                      /\ LastRun = "respond"
                      /\ history[hist0 + 3] = "orchestrator")
    /\ FailureReturns38

\* C38 witness: a run with bound 5 for a student without a profile in which
\* the profile agent failed twice was cut with the history orchestrator,
\* profile, orchestrator, profile, orchestrator and the profile agent next.
C38_Witness ==
    /\ Finished37 /\ max_steps = 5 /\ steps = 5 /\ warned
    /\ ~shared.has_profile /\ ProfileSuccesses = 0
    /\ Cardinality(VisitsOf("profile")) = 2
    /\ Alternates38
    /\ current_node = "profile"
    /\ action = "profile"

\* The files of disk d from whose stems list_keys(p, t) derives the key k.
DerivedFrom(d, p, t, k) ==
    {g \in DOMAIN d : /\ g[1] \in Reached(t, p.dirs)
                      /\ Match(p.name, g[2])
                      /\ Replace(g[2], {"_"}, "/") = k}
ListedLoadable(P) ==
    \A p \in P, t \in Tiers :
        \A i \in 1..Len(ListKeysIn(disk, p, t)) :
            LET k == ListKeysIn(disk, p, t)[i]
            IN /\ ExistsIn(disk, k, t)
               /\ \A g \in DerivedFrom(disk, p, t, k) :
                     LoadIn(disk, k, t) = Parse(disk[g].data)

\* C39: every key list_keys(pattern, T) returns exists in T, and load of it
\* from T returns the data of the record in the file the key was derived
\* from, whatever the spelling of the key that was saved.
C39_ListedLoadable == ListedLoadable(Patterns)

\* Key k with every "/" and every "\" replaced by "_".
Underscored(k) ==
    [i \in 1..Len(k) |-> IF k[i] = "/" \/ k[i] = "\\" THEN "_" ELSE k[i]]
PlainKey(k) == \A i \in 1..Len(k) : k[i] \notin {"/", "\\", "_"}
\* Key k addresses, in the tier of the last call, the record the last save
\* has just written.
AddressesLastSaved(k) ==
    /\ GetPath(k, last.tier) \in DOMAIN disk
    /\ disk[GetPath(k, last.tier)].key = last.key
    /\ disk[GetPath(k, last.tier)].timestamp = nsaves
    /\ LoadIn(disk, k, last.tier) = last.value

\* C40: after save(K1, V, T), a key K2 other than K1 addresses the record
\* just written (it exists in T and load returns V) exactly when K1 and K2
\* are equal once "/" and "\" are replaced by "_"; so a key without "/", "\"
\* and "_" shares its record with no other key, and "a_b" shares its record
\* with "a/b"; exists and load of a key find a record exactly when a key
\* equal to it after the replacement was saved in the tier.
C40_CollideWhenUnderscoredEqual ==
    /\ last.op = "save" =>
          /\ \A k2 \in CollKeys \ {last.key} :
                /\ AddressesLastSaved(k2)
                      <=> Underscored(k2) = Underscored(last.key)
                /\ (PlainKey(k2) \/ PlainKey(last.key))
                      => ~AddressesLastSaved(k2)
          /\ last.key = <<"a", "_", "b">>
                => AddressesLastSaved(<<"a", "/", "b">>)
    /\ last.op = "exists" =>
          (last.found <=>
              \E q \in saved : /\ q[2] = last.tier
                               /\ Underscored(q[1]) = Underscored(last.key))
    /\ last.op = "load" =>
          (last.value # PyNone <=>
              \E q \in saved : /\ q[2] = last.tier
                               /\ Underscored(q[1]) = Underscored(last.key))

\* C40 witness: "a/b" and then "a_b" were saved in one tier, which holds one
\* file; "a/b" and "a\b" address the record of "a_b", "a" and "ab" do not.
C40_Witness ==
    /\ last.op = "save" /\ last.key = <<"a", "_", "b">>
    /\ saved = {<<<<"a", "/", "b">>, last.tier>>, <<last.key, last.tier>>}
    /\ Cardinality(DOMAIN disk) = 1
    /\ AddressesLastSaved(<<"a", "/", "b">>)
    /\ AddressesLastSaved(<<"a", "\\", "b">>)
    /\ ~AddressesLastSaved(<<"a">>)
    /\ ~AddressesLastSaved(<<"a", "b">>)

====
